---- MODULE Spec2Model ----
(***************************************************************************)
(* cookidump (dumpCollections.py): the two-level thread-pool crawl, the    *)
(* shared result collector (state tracker), the per-recipe memory          *)
(* lifecycle and the master index.                                         *)
(***************************************************************************)
EXTENDS Integers, Sequences, FiniteSets, TLC

(***************************************************************************)
(* Bounds of the model.                                                    *)
(***************************************************************************)
\* external calls (browser start, navigation, extraction, write) that may raise in one run
MaxFaults == 1
\* length of a sequence of direct calls to the result collector
MaxCalls == 5

(***************************************************************************)
(* Python strings that the code compares or sorts are sequences of code    *)
(* points; str.__lt__ is the lexicographic order on them.                  *)
(***************************************************************************)
custom == <<99, 117, 115, 116, 111, 109>>
saved == <<115, 97, 118, 101, 100>>
created == <<99, 114, 101, 97, 116, 101, 100>>
bookmark == <<98, 111, 111, 107, 109, 97, 114, 107>>
\* "Bookmarks", "Created recipes" (getFixedCollections) and a custom list "Asian"
Bookmarks == <<66, 111, 111, 107, 109, 97, 114, 107, 115>>
CreatedRecipes == <<67, 114, 101, 97, 116, 101, 100, 32, 114, 101, 99, 105, 112, 101, 115>>
Asian == <<65, 115, 105, 97, 110>>

\* None where a RecipeState is expected (dict.get of an absent key)
None == "None"
\* None where a pattern string or a compiled pattern is expected
NoPattern == <<-1>>

Min(a, b) == IF a <= b THEN a ELSE b

\* str.__lt__
StrLess(a, b) ==
    \E i \in 1..(Min(Len(a), Len(b)) + 1) :
        /\ \A j \in 1..(i - 1) : a[j] = b[j]
        /\ \/ i > Len(a) /\ i <= Len(b)
           \/ i <= Len(a) /\ i <= Len(b) /\ a[i] < b[i]

\* re.search of a pattern without metacharacters: substring containment
Search(pat, s) ==
    \E i \in 0..(Len(s) - Len(pat)) :
        \A j \in 1..Len(pat) : s[i + j] = pat[j]

(***************************************************************************)
(* models.py: RecipeState and Recipe                                       *)
(***************************************************************************)
BASIC_INFO_ONLY == "basic"
FULL_DATA_LOADED == "loaded"
JSON_EXPORTED == "exported"
MEMORY_CLEARED == "cleared"
RecipeState == {BASIC_INFO_ONLY, FULL_DATA_LOADED, JSON_EXPORTED, MEMORY_CLEARED}

\* Recipe(recipe_id, recipe_name, recipe_url): no content, _memory_state BASIC_INFO_ONLY
Recipe(id, title) ==
    [id |-> id, title |-> title, memory_state |-> BASIC_INFO_ONLY, heavy |-> FALSE]

\* populateRecipeData fills ingredients, directions, notes, photo_data
populateRecipeData(r) == [r EXCEPT !.heavy = TRUE]

mark_full_data_loaded(r) == [r EXCEPT !.memory_state = FULL_DATA_LOADED]

mark_json_exported(r) == [r EXCEPT !.memory_state = JSON_EXPORTED]

is_memory_cleared(r) == r.memory_state = MEMORY_CLEARED

\* variant: the fields are emptied without the test of _memory_state
clear_memory_heavy_fields_unguarded(r) ==
    [ok |-> TRUE, recipe |-> [r EXCEPT !.heavy = FALSE, !.memory_state = MEMORY_CLEARED]]

\* returns [ok, recipe]: refuses unless _memory_state is JSON_EXPORTED
clear_memory_heavy_fields(r) ==
    IF r.memory_state # JSON_EXPORTED
    THEN [ok |-> FALSE, recipe |-> r]
    ELSE [ok |-> TRUE,
          recipe |-> [r EXCEPT !.heavy = FALSE, !.memory_state = MEMORY_CLEARED]]

(***************************************************************************)
(* ThreadSafeResultCollector: every method body runs under self._lock, so  *)
(* each is one atomic step on (recipe_states, counters, errors).           *)
(* recipe_states is a dict; an absent key reads as None.                   *)
(***************************************************************************)
\* recipe ids "A", "B", "C", "D"
A == <<65>>
B == <<66>>
C == <<67>>
D == <<68>>
Ids == {A, B, C, D}

EmptyStates == [i \in Ids |-> None]

\* returns [ret, states]
\* variant: the claim is answered but not recorded in recipe_states
mark_recipe_for_processing_unrecorded(rs, id) ==
    [ret |-> rs[id] = None, states |-> rs]

\* variant: only a finished recipe counts as taken, one in progress is claimed again
mark_recipe_for_processing_reclaim(rs, id) ==
    IF rs[id] \in {None, FULL_DATA_LOADED}
    THEN [ret |-> TRUE, states |-> [rs EXCEPT ![id] = FULL_DATA_LOADED]]
    ELSE [ret |-> FALSE, states |-> rs]

\* variant: the assignment of FULL_DATA_LOADED is made outside the `if`
mark_recipe_for_processing_overwrite(rs, id) ==
    [ret |-> rs[id] = None, states |-> [rs EXCEPT ![id] = FULL_DATA_LOADED]]

mark_recipe_for_processing(rs, id) ==
    IF rs[id] = None
    THEN [ret |-> TRUE, states |-> [rs EXCEPT ![id] = FULL_DATA_LOADED]]
    ELSE [ret |-> FALSE, states |-> rs]

\* variant: the body of mark_recipe_memory_cleared under the name of
\* mark_recipe_json_exported
mark_recipe_json_exported_as_cleared(rs, id) ==
    IF rs[id] # None THEN [rs EXCEPT ![id] = MEMORY_CLEARED] ELSE rs

mark_recipe_json_exported(rs, id) ==
    IF rs[id] # None THEN [rs EXCEPT ![id] = JSON_EXPORTED] ELSE rs

\* variant: the test of Recipe.is_json_exported (exported or cleared)
can_clear_memory_or_cleared(rs, id) == rs[id] \in {JSON_EXPORTED, MEMORY_CLEARED}

can_clear_memory(rs, id) == rs[id] = JSON_EXPORTED

mark_recipe_memory_cleared(rs, id) ==
    IF rs[id] # None THEN [rs EXCEPT ![id] = MEMORY_CLEARED] ELSE rs

get_memory_stats(rs) ==
    [total_recipes |-> Cardinality({i \in Ids : rs[i] # None}),
     full_data |-> Cardinality({i \in Ids : rs[i] = FULL_DATA_LOADED}),
     json_exported |-> Cardinality({i \in Ids : rs[i] = JSON_EXPORTED}),
     memory_cleared |-> Cardinality({i \in Ids : rs[i] = MEMORY_CLEARED})]

\* variant: the counter is assigned, not added to
increment_counters_assign(n, k) == k

increment_counters(n, k) == n + k

add_error(errs, msg) == Append(errs, msg)

(***************************************************************************)
(* configuration.py                                                        *)
(***************************************************************************)
\* index of the first / last "::" of a pattern string, 0 when there is none
FirstSep(p) ==
    IF \E i \in 1..(Len(p) - 1) : p[i] = 58 /\ p[i + 1] = 58
    THEN CHOOSE i \in 1..(Len(p) - 1) :
            /\ p[i] = 58 /\ p[i + 1] = 58
            /\ \A k \in 1..(i - 1) : ~(p[k] = 58 /\ p[k + 1] = 58)
    ELSE 0

LastSep(p) ==
    IF \E i \in 1..(Len(p) - 1) : p[i] = 58 /\ p[i + 1] = 58
    THEN CHOOSE i \in 1..(Len(p) - 1) :
            /\ p[i] = 58 /\ p[i + 1] = 58
            /\ \A k \in (i + 1)..(Len(p) - 1) : ~(p[k] = 58 /\ p[k + 1] = 58)
    ELSE 0

\* returns [collection, recipe]: the compiled patterns, NoPattern where there is none
validate_and_compile_pattern(p) ==
    IF p = NoPattern \/ p = <<>>
    THEN [collection |-> NoPattern, recipe |-> NoPattern]
    ELSE IF FirstSep(p) # 0
         THEN LET cs == SubSeq(p, 1, FirstSep(p) - 1)
                  rs == SubSeq(p, LastSep(p) + 2, Len(p))
              IN  [collection |-> IF cs # <<>> THEN cs ELSE NoPattern,
                   recipe |-> IF rs # <<>> THEN rs ELSE NoPattern]
         ELSE [collection |-> p, recipe |-> NoPattern]

\* ScrapingConfiguration(): the defaults of the thread counts, lines 52-53
default_max_collection_threads == 3
default_max_recipe_threads == 2

\* __post_init__, line 60: max_concurrent_browsers, computed once when the object
\* is constructed
post_init(collection_threads, recipe_threads) ==
    collection_threads * (1 + recipe_threads)

\* ScrapingConfiguration as create_config_from_args builds it: constructed with
\* the defaults (line 536), the thread counts assigned afterwards
create_config_from_args(max_threads, recipe_threads, json, savedflag, pattern) ==
    [max_collection_threads |-> max_threads,
     max_recipe_threads |-> recipe_threads,
     max_concurrent_browsers |-> post_init(default_max_collection_threads,
                                           default_max_recipe_threads),
     json_export |-> json,
     saved_collections |-> savedflag,
     pattern |-> pattern,
     collection_pattern |-> validate_and_compile_pattern(pattern).collection,
     recipe_pattern |-> validate_and_compile_pattern(pattern).recipe,
     excluded_collection_patterns |-> <<<<94, 90, 90>>>>,
     continue_on_error |-> TRUE]

\* excluded_collection_patterns holds "^ZZ": re.search(pattern, title, re.IGNORECASE)
Upper(ch) == IF ch >= 97 /\ ch <= 122 THEN ch - 32 ELSE ch

is_collection_excluded_from_json(cfg, title) ==
    \E k \in 1..Len(cfg.excluded_collection_patterns) :
        LET pat == cfg.excluded_collection_patterns[k]
        IN  /\ pat[1] = 94
            /\ Len(title) >= Len(pat) - 1
            /\ \A j \in 2..Len(pat) : Upper(title[j - 1]) = Upper(pat[j])

(***************************************************************************)
(* The site: what bootstrap discovery and the collection pages return, in  *)
(* the order of run(): the two fixed collections, then the custom lists    *)
(* (one here), then the saved collections (none on this account).          *)
(* managed_count is the count on the custom-list management page.          *)
(***************************************************************************)
\* recipe titles "Pho", "Dal", "Pie", "Poke"
Pho == <<80, 104, 111>>
Dal == <<68, 97, 108>>
Pie == <<80, 105, 101>>
Poke == <<80, 111, 107, 101>>
TileA == [id |-> A, name |-> Pho]
TileB == [id |-> B, name |-> Dal]
TileC == [id |-> C, name |-> Pie]
TileD == [id |-> D, name |-> Poke]

Site ==
    << [title |-> Bookmarks, colltype |-> bookmark, tiles |-> <<TileA, TileB>>,
        managed_count |-> 0],
       [title |-> CreatedRecipes, colltype |-> created, tiles |-> <<TileB, TileC>>,
        managed_count |-> 0],
       [title |-> Asian, colltype |-> custom, tiles |-> <<TileA, TileD>>,
        managed_count |-> 3] >>

\* the same account with the custom list named "zzTarts", a title that the
\* default excluded_collection_patterns ("^ZZ", case-insensitive) matches
zzTarts == <<122, 122, 84, 97, 114, 116, 115>>
SiteZ == [Site EXCEPT ![3].title = zzTarts]

NColl == Len(Site)

\* Collection(title, url, colltype) after __post_init__
Collection(title, colltype) ==
    [title |-> title, colltype |-> colltype,
     all_recipes |-> <<>>, json_recipes |-> <<>>,
     actual_recipe_count |-> 0, official_recipe_count |-> -1]

\* variant: `official_recipe_count if official_recipe_count > 0`
master_index_count_positive(coll) ==
    IF coll.official_recipe_count > 0 THEN coll.official_recipe_count
    ELSE coll.actual_recipe_count

master_index_count(coll) ==
    IF coll.official_recipe_count # -1 THEN coll.official_recipe_count
    ELSE coll.actual_recipe_count

\* variant: key=lambda coll: coll.title
IndexKeyLess_title(x, y) == StrLess(x.title, y.title)

\* key=lambda coll: (coll.colltype, coll.title), compared as tuples
IndexKeyLess(x, y) ==
    \/ StrLess(x.colltype, y.colltype)
    \/ x.colltype = y.colltype /\ StrLess(x.title, y.title)

\* sorted(collections, key=...): a stable sort (an equal key stays behind)
RECURSIVE InsertCollection(_, _)
InsertCollection(x, s) ==
    IF s = <<>> THEN <<x>>
    ELSE IF IndexKeyLess(x, Head(s)) THEN <<x>> \o s
    ELSE <<Head(s)>> \o InsertCollection(x, Tail(s))

RECURSIVE SortedCollections(_)
SortedCollections(s) ==
    IF s = <<>> THEN <<>>
    ELSE InsertCollection(s[Len(s)], SortedCollections(SubSeq(s, 1, Len(s) - 1)))

\* sorted(collection.all_recipes, key=lambda c: c.id)
RECURSIVE InsertRecipe(_, _)
InsertRecipe(x, s) ==
    IF s = <<>> THEN <<x>>
    ELSE IF StrLess(x.id, Head(s).id) THEN <<x>> \o s
    ELSE <<Head(s)>> \o InsertRecipe(x, Tail(s))

RECURSIVE SortedRecipes(_)
SortedRecipes(s) ==
    IF s = <<>> THEN <<>>
    ELSE InsertRecipe(s[Len(s)], SortedRecipes(SubSeq(s, 1, Len(s) - 1)))

\* recipe_list_text: one line (id, title) per recipe of all_recipes, sorted by id
recipe_list_text(coll) ==
    LET srt == SortedRecipes(coll.all_recipes)
    IN  [k \in 1..Len(srt) |-> <<srt[k].id, srt[k].title>>]

\* the rows of the master index: (master_index_count, colltype, title)
MasterIndex(collections) ==
    LET srt == SortedCollections(collections)
    IN  [k \in 1..Len(srt) |->
            <<master_index_count(srt[k]), srt[k].colltype, srt[k].title>>]

\* should_process_collection
should_process_collection(cfg, coll) ==
    IF coll.colltype = saved /\ cfg.saved_collections THEN TRUE
    ELSE IF cfg.pattern = NoPattern THEN TRUE
    ELSE IF cfg.collection_pattern # NoPattern
         THEN Search(cfg.collection_pattern, coll.title)
         ELSE FALSE

\* variant: lines 541-545 alone, is_collection_excluded_from_json is not asked
should_add_to_json_no_exclusion(cfg, coll, recipe_name) ==
    /\ cfg.json_export
    /\ \/ cfg.pattern = NoPattern
       \/ cfg.recipe_pattern # NoPattern /\ Search(cfg.recipe_pattern, recipe_name)

\* populateCollectionData, lines 541-553: is the recipe added to json_recipes
should_add_to_json(cfg, coll, recipe_name) ==
    /\ cfg.json_export
    /\ \/ cfg.pattern = NoPattern
       \/ cfg.recipe_pattern # NoPattern /\ Search(cfg.recipe_pattern, recipe_name)
    /\ ~is_collection_excluded_from_json(cfg, coll.title)

\* variant: a Recipe is appended to all_recipes only when it is selected for export
populateCollectionData_selected(cfg, coll, tiles) ==
    LET picked == SelectSeq(tiles, LAMBDA t : should_add_to_json(cfg, coll, t.name))
        base == Len(coll.all_recipes)
    IN  [coll EXCEPT
            !.actual_recipe_count = Len(tiles),
            !.all_recipes = coll.all_recipes \o
                            [k \in 1..Len(picked) |-> Recipe(picked[k].id, picked[k].name)],
            !.json_recipes = coll.json_recipes \o [k \in 1..Len(picked) |-> base + k]]

\* populateCollectionData: tiles is what parse_collection_tiles_with_lxml returned
\* (the empty list when the try block raised); json_recipes holds references
\* into all_recipes, kept here as indexes
populateCollectionData(cfg, coll, tiles) ==
    LET base == Len(coll.all_recipes)
        picked == {k \in 1..Len(tiles) : should_add_to_json(cfg, coll, tiles[k].name)}
        RECURSIVE Refs(_)
        Refs(k) == IF k > Len(tiles) THEN <<>>
                   ELSE (IF k \in picked THEN <<base + k>> ELSE <<>>) \o Refs(k + 1)
    IN  [coll EXCEPT
            !.actual_recipe_count = Len(tiles),
            !.all_recipes = coll.all_recipes \o
                            [k \in 1..Len(tiles) |-> Recipe(tiles[k].id, tiles[k].name)],
            !.json_recipes = coll.json_recipes \o Refs(1)]

(***************************************************************************)
(* State                                                                   *)
(***************************************************************************)
VARIABLES
    config,                 \* ScrapingConfiguration
    colls,                  \* run(): the list `collections`
    mpc,                    \* position of the main thread in run()
    to_process,             \* collections_to_process (indexes into colls)
    nsubmitted,             \* collections submitted to collection_executor so far
    processed,              \* process_collections_parallel: the list `processed`
    worker,                 \* collection_executor thread -> collection it runs (0: idle)
    cp,                     \* per collection: its future and its CollectionProcessor
    recipe_states,          \* ThreadSafeResultCollector.recipe_states
    processed_collections,  \* ThreadSafeResultCollector.processed_collections
    processed_recipes,      \* ThreadSafeResultCollector.processed_recipes
    errors,                 \* ThreadSafeResultCollector.errors
    open_sessions,          \* browsers started by create_authenticated_driver, not quit
    leaked_sessions,        \* of these, the ones no processor holds a reference to
    bootstrap_open,         \* ScraperSetup.driver is open
    json_files,             \* output_dir/json_dir/<id>.json: number of writes per id
    text_files,             \* per collection: the listing written, NoFile if none
    index,                  \* the "Master Index" file, NoFile if not written
    claim_calls,            \* history: mark_recipe_for_processing calls per id
    claim_wins,             \* history: of these, the calls that returned True
    started,                \* history: process_recipe entries per id
    failed,                 \* history: ids whose item task raised or recorded an error
    faults,                 \* history: external calls that raised so far
    call,                   \* the last direct call to the collector and its result
    site,                   \* the account: its collections and what their pages show
    summary,                \* the lines print_summary printed
    scroll,                 \* scrollToEnd: the page it scrolls and its local variables
    logger                  \* ThreadSafePageLogger: _instance, _lock and the threads
                            \* that are in __new__

vars == <<config, colls, mpc, to_process, nsubmitted, processed, worker, cp,
          recipe_states, processed_collections, processed_recipes, errors,
          open_sessions, leaked_sessions, bootstrap_open, json_files, text_files,
          index, claim_calls, claim_wins, started, failed, faults, call, site,
          summary, scroll, logger>>

trackerVars == <<recipe_states, processed_collections, processed_recipes, errors>>
sessionVars == <<open_sessions, leaked_sessions, bootstrap_open>>
mainVars == <<mpc, to_process, nsubmitted, processed>>
outputVars == <<json_files, text_files, index>>
claimVars == <<claim_calls, claim_wins>>
envVars == <<site, summary, scroll, logger>>

NoFile == <<-1>>

\* a future of recipe_executor and the RecipeProcessor behind it
\*   recipe: reference into collection.all_recipes
\*   pc: queued, export, mark_exported, increment, exit, done
\*   driver: RecipeProcessor.driver is set; raised: the future holds an exception
ItemFuture(ref) ==
    [recipe |-> ref, pc |-> "queued", driver |-> FALSE, raised |-> FALSE,
     collected |-> FALSE]

\* a future of collection_executor and the CollectionProcessor behind it
\*   pc: unsubmitted, queued, navigate, save_text, claim, collect, cleanup, clear,
\*       increment, exit, done
CollectionFuture ==
    [pc |-> "unsubmitted", driver |-> FALSE, raised |-> FALSE, collected |-> FALSE,
     i |-> 1, futures |-> <<>>, processed_recipes |-> <<>>]

\* the thread counts a run is started with: (--max-threads, max_recipe_threads)
ThreadChoices == {<<1, 1>>, <<1, 2>>, <<2, 2>>}

Configurations ==
    {create_config_from_args(t[1], t[2], TRUE, TRUE, NoPattern) : t \in ThreadChoices}

\* a line that print_summary did not print
NotPrinted == -1

\* print_summary has not run: nothing is printed
NoSummary == [warning |-> FALSE, collections |-> NotPrinted, recipes |-> NotPrinted,
              errors |-> NotPrinted]

\* scrollToEnd has not been entered
ScrollIdle == [pc |-> "idle", tiles |-> 0, previousElements |-> 0, count |-> 0,
               stale |-> 0]

\* the threads that call ThreadSafePageLogger() at the same time
MaxLoggerThreads == 3
LoggerThreads == 1..MaxLoggerThreads

\* ThreadSafePageLogger._instance: None (exists is FALSE), or the object with the
\* attributes that have been assigned to it so far
NoInstance == [exists |-> FALSE, file_lock |-> FALSE, log_file |-> FALSE,
               thread_timings |-> FALSE, timing_lock |-> FALSE]

\* the class as lines 52-53 define it: _instance is None, _lock is free, and no
\* thread has called ThreadSafePageLogger() yet
LoggerIdle ==
    [instance |-> NoInstance, lock |-> 0, created |-> 0,
     pc |-> [t \in LoggerThreads |-> "start"],
     received |-> [t \in LoggerThreads |-> NoInstance]]

\* the state after CookidooScraper.__init__ with a configuration of cfgs, the
\* list `collections` holding cs, on an account of sites
InitOn(cfgs, cs, sites) ==
    /\ config \in cfgs
    /\ site \in sites
    /\ summary = NoSummary
    /\ scroll = ScrollIdle
    /\ logger = LoggerIdle
    /\ colls = cs
    /\ mpc = "start"
    /\ to_process = <<>>
    /\ nsubmitted = 0
    /\ processed = <<>>
    /\ worker = [w \in 1..config.max_collection_threads |-> 0]
    /\ cp = [c \in 1..NColl |-> CollectionFuture]
    /\ recipe_states = EmptyStates
    /\ processed_collections = 0
    /\ processed_recipes = 0
    /\ errors = <<>>
    /\ open_sessions = 0
    /\ leaked_sessions = 0
    /\ bootstrap_open = TRUE
    /\ json_files = [i \in Ids |-> 0]
    /\ text_files = [c \in 1..NColl |-> NoFile]
    /\ index = NoFile
    /\ claim_calls = [i \in Ids |-> 0]
    /\ claim_wins = [i \in Ids |-> 0]
    /\ started = [i \in Ids |-> 0]
    /\ failed = {}
    /\ faults = 0
    /\ call = [op |-> "none", id |-> <<>>, ret |-> FALSE, n |-> 0]

InitWith(cfgs, cs) == InitOn(cfgs, cs, {Site})

Init == InitWith(Configurations, <<>>)

(***************************************************************************)
(* Helpers of the actions                                                  *)
(***************************************************************************)
\* the thread of collection_executor that ran c returns to its work queue
Release(c) == [w \in DOMAIN worker |-> IF worker[w] = c THEN 0 ELSE worker[w]]

\* recipe_executor threads of collection c that are running a task
Running(c) ==
    Cardinality({j \in 1..Len(cp[c].futures) :
                    cp[c].futures[j].pc \notin {"queued", "done"}})

\* CollectionProcessors that a collection_executor thread is running
ActiveCollections == {c \in 1..NColl : cp[c].pc \notin {"unsubmitted", "queued", "done"}}

ItemRecipe(c, j) == colls[c].all_recipes[cp[c].futures[j].recipe]

\* the error messages of lines 1116/1336, 1230 and 1139
CollectionError(c) == <<"Collection processing error for", colls[c].title>>
RecipeError(c, j) == <<"Recipe processing error for", ItemRecipe(c, j).title>>
FutureError == <<"Recipe processing error", <<>>>>

\* create_authenticated_driver raised: before webdriver.Chrome returned (no browser),
\* or after it (lines 183-193), when the started browser is referenced by nobody
DriverFailures == {"no_browser", "browser_left_open"}
Leak(how) == IF how = "browser_left_open" THEN 1 ELSE 0

(***************************************************************************)
(* CookidooScraper.run and process_collections_parallel (main thread)      *)
(***************************************************************************)
\* _handle_custom_collection_counts: the management page lists the custom collections
handle_custom_collection_counts(coll, k) ==
    IF coll.colltype = custom
    THEN [coll EXCEPT !.official_recipe_count = site[k].managed_count]
    ELSE coll

\* run(), lines 1284-1296: sequential discovery with the bootstrap session
Run_Discover ==
    /\ mpc = "start"
    /\ colls' = [k \in 1..NColl |->
                    handle_custom_collection_counts(
                        Collection(site[k].title, site[k].colltype), k)]
    /\ mpc' = "filter"
    /\ UNCHANGED <<config, envVars, to_process, nsubmitted, processed, worker, cp, trackerVars,
                   sessionVars, outputVars, claimVars, started, failed, faults, call>>

\* variant: every collection is submitted, should_process_collection is not asked
Run_Filter_all ==
    /\ mpc = "filter"
    /\ to_process' = [k \in 1..NColl |-> k]
    /\ mpc' = "pool"
    /\ UNCHANGED <<config, envVars, colls, nsubmitted, processed, worker, cp, trackerVars,
                   sessionVars, outputVars, claimVars, started, failed, faults, call>>

\* process_collections_parallel, lines 1312-1322
Run_Filter ==
    /\ mpc = "filter"
    /\ to_process' = SelectSeq([k \in 1..NColl |-> k],
                               LAMBDA k : should_process_collection(config, colls[k]))
    /\ mpc' = "pool"
    /\ UNCHANGED <<config, envVars, colls, nsubmitted, processed, worker, cp, trackerVars,
                   sessionVars, outputVars, claimVars, started, failed, faults, call>>

\* lines 1325-1327: collection_executor.submit
Run_Submit ==
    /\ mpc = "pool"
    /\ nsubmitted < Len(to_process)
    /\ cp' = [cp EXCEPT ![to_process[nsubmitted + 1]].pc = "queued"]
    /\ nsubmitted' = nsubmitted + 1
    /\ UNCHANGED <<config, envVars, colls, mpc, to_process, processed, worker, trackerVars,
                   sessionVars, outputVars, claimVars, started, failed, faults, call>>

\* lines 1329-1333: as_completed yields a future that returned
Run_AsCompleted(c) ==
    /\ mpc = "pool"
    /\ nsubmitted = Len(to_process)
    /\ cp[c].pc = "done" /\ ~cp[c].collected /\ ~cp[c].raised
    /\ processed' = Append(processed, c)
    /\ cp' = [cp EXCEPT ![c].collected = TRUE]
    /\ UNCHANGED <<config, envVars, colls, mpc, to_process, nsubmitted, worker, trackerVars,
                   sessionVars, outputVars, claimVars, started, failed, faults, call>>

\* lines 1334-1337: as_completed yields a future that holds an exception
Run_AsCompletedRaised(c) ==
    /\ mpc = "pool"
    /\ nsubmitted = Len(to_process)
    /\ cp[c].pc = "done" /\ ~cp[c].collected /\ cp[c].raised
    /\ errors' = add_error(errors, CollectionError(c))
    /\ cp' = [cp EXCEPT ![c].collected = TRUE]
    /\ UNCHANGED <<config, envVars, colls, mainVars, worker, recipe_states,
                   processed_collections, processed_recipes,
                   sessionVars, outputVars, claimVars, started, failed, faults, call>>

\* variant: the collections are returned once they are submitted, without the
\* as_completed loop and the wait of the executor's shutdown
Run_Return_early ==
    /\ mpc = "pool"
    /\ nsubmitted = Len(to_process)
    /\ mpc' = "index"
    /\ UNCHANGED <<config, envVars, colls, to_process, nsubmitted, processed, worker, cp,
                   trackerVars, sessionVars, outputVars, claimVars, started, failed,
                   faults, call>>

\* line 1339: the executor is shut down and all collections are returned
Run_Return ==
    /\ mpc = "pool"
    /\ nsubmitted = Len(to_process)
    /\ \A k \in 1..Len(to_process) : cp[to_process[k]].collected
    /\ mpc' = "index"
    /\ UNCHANGED <<config, envVars, colls, to_process, nsubmitted, processed, worker, cp,
                   trackerVars, sessionVars, outputVars, claimVars, started, failed,
                   faults, call>>

\* variant: process_collections_parallel returns the list `processed`, and the
\* index is made from it
Run_GenerateFinalOutputs_processed ==
    /\ mpc = "index"
    /\ index' = MasterIndex([k \in 1..Len(processed) |-> colls[processed[k]]])
    /\ mpc' = "close"
    /\ UNCHANGED <<config, envVars, colls, to_process, nsubmitted, processed, worker, cp,
                   trackerVars, sessionVars, json_files, text_files, claimVars,
                   started, failed, faults, call>>

\* generate_final_outputs(processed_collections), where the argument is the
\* return value of process_collections_parallel: all collections
Run_GenerateFinalOutputs ==
    /\ mpc = "index"
    /\ index' = MasterIndex(colls)
    /\ mpc' = "close"
    /\ UNCHANGED <<config, envVars, colls, to_process, nsubmitted, processed, worker, cp,
                   trackerVars, sessionVars, json_files, text_files, claimVars,
                   started, failed, faults, call>>

\* self.scraper.close()
Run_Close ==
    /\ mpc = "close"
    /\ bootstrap_open' = FALSE
    /\ mpc' = "summary"
    /\ UNCHANGED <<config, envVars, colls, to_process, nsubmitted, processed, worker, cp,
                   trackerVars, open_sessions, leaked_sessions, outputVars, claimVars,
                   started, failed, faults, call>>

\* get_stats
get_stats == <<processed_collections, processed_recipes, Len(errors)>>

\* print_summary: the lines it prints for the tuple of get_stats: the warning,
\* the two processed counts, the error count
print_summary(stats) ==
    IF stats[1] = 0 /\ stats[2] = 0
    THEN [warning |-> TRUE, collections |-> NotPrinted, recipes |-> NotPrinted,
          errors |-> NotPrinted]
    ELSE [warning |-> FALSE, collections |-> stats[1], recipes |-> stats[2],
          errors |-> IF stats[3] > 0 THEN stats[3] ELSE NotPrinted]

\* print_summary
Run_PrintSummary ==
    /\ mpc = "summary"
    /\ mpc' = "done"
    /\ summary' = print_summary(get_stats)
    /\ UNCHANGED <<config, site, scroll, logger, colls, to_process, nsubmitted, processed,
                   worker, cp, trackerVars, sessionVars, outputVars, claimVars, started,
                   failed, faults, call>>

(***************************************************************************)
(* process_single_collection / CollectionProcessor (collection_executor)   *)
(***************************************************************************)
\* the oldest queued work item of collection_executor
Queued(c) ==
    \E k \in 1..nsubmitted :
        /\ to_process[k] = c
        /\ cp[c].pc = "queued"
        /\ \A m \in 1..(k - 1) : cp[to_process[m]].pc # "queued"

\* variant: a thread of collection_executor takes a work item while it runs one
IdleThread_any(w) == \A v \in 1..(w - 1) : worker[v] # 0

\* ThreadPoolExecutor(max_workers=max_collection_threads): a thread takes a work
\* item only when it runs none (the threads are interchangeable: of the idle
\* threads, the one with the least number takes it)
IdleThread(w) ==
    /\ worker[w] = 0
    /\ \A v \in 1..(w - 1) : worker[v] # 0

\* an idle thread of collection_executor takes the oldest queued work item and runs
\* process_single_collection; CollectionProcessor.__enter__:
\* create_authenticated_driver returns a driver
Coll_Enter(w, c) ==
    /\ IdleThread(w)
    /\ Queued(c)
    /\ worker' = [worker EXCEPT ![w] = c]
    /\ open_sessions' = open_sessions + 1
    /\ cp' = [cp EXCEPT ![c].pc = "navigate", ![c].driver = TRUE]
    /\ UNCHANGED <<config, envVars, colls, mainVars, trackerVars, leaked_sessions,
                   bootstrap_open, outputVars, claimVars, started, failed, faults, call>>

\* the same, but CollectionProcessor.__enter__ raises: process_single_collection
\* raises, __exit__ is not called, the future holds the exception and the thread
\* is idle again
Coll_EnterFail(w, c, how) ==
    /\ IdleThread(w)
    /\ Queued(c)
    /\ faults < MaxFaults
    /\ faults' = faults + 1
    /\ open_sessions' = open_sessions + Leak(how)
    /\ leaked_sessions' = leaked_sessions + Leak(how)
    /\ cp' = [cp EXCEPT ![c].pc = "done", ![c].raised = TRUE]
    /\ UNCHANGED <<config, envVars, colls, mainVars, worker, trackerVars, bootstrap_open,
                   outputVars, claimVars, started, failed, call>>

\* variant: the except block of process_collection records the error and raises
\* it again
Coll_NavigateFail_reraise(c) ==
    /\ cp[c].pc = "navigate"
    /\ faults < MaxFaults
    /\ faults' = faults + 1
    /\ errors' = add_error(errors, CollectionError(c))
    /\ cp' = [cp EXCEPT ![c].pc = "exit", ![c].raised = TRUE]
    /\ UNCHANGED <<config, envVars, colls, mainVars, worker, recipe_states,
                   processed_collections, processed_recipes, sessionVars, outputVars,
                   claimVars, started, failed, call>>

\* process_collection, lines 1090-1093: navigation raises: lines 1115-1119
Coll_NavigateFail(c) ==
    /\ cp[c].pc = "navigate"
    /\ faults < MaxFaults
    /\ faults' = faults + 1
    /\ errors' = add_error(errors, CollectionError(c))
    /\ cp' = [cp EXCEPT ![c].pc = "exit"]
    /\ UNCHANGED <<config, envVars, colls, mainVars, worker, recipe_states,
                   processed_collections, processed_recipes, sessionVars, outputVars,
                   claimVars, started, failed, call>>

\* lines 1090-1093: navigation and populateCollectionData
Coll_Populate(c) ==
    /\ cp[c].pc = "navigate"
    /\ colls' = [colls EXCEPT ![c] = populateCollectionData(config, colls[c], site[c].tiles)]
    /\ cp' = [cp EXCEPT ![c].pc = "save_text"]
    /\ UNCHANGED <<config, envVars, mainVars, worker, trackerVars, sessionVars, outputVars,
                   claimVars, started, failed, faults, call>>

\* lines 1090-1093, the try block of populateCollectionData raises: lines 527-530
Coll_PopulateFail(c) ==
    /\ cp[c].pc = "navigate"
    /\ faults < MaxFaults
    /\ faults' = faults + 1
    /\ colls' = [colls EXCEPT ![c] = populateCollectionData(config, colls[c], <<>>)]
    /\ cp' = [cp EXCEPT ![c].pc = "save_text"]
    /\ UNCHANGED <<config, envVars, mainVars, worker, trackerVars, sessionVars, outputVars,
                   claimVars, started, failed, call>>

\* where process_collection goes after save_text: line 1105
AfterSaveText(coll) ==
    IF config.json_export /\ coll.json_recipes # <<>> THEN "claim" ELSE "increment"

\* lines 1096-1102: save_text
Coll_SaveText(c) ==
    /\ cp[c].pc = "save_text"
    /\ text_files' = [text_files EXCEPT ![c] = recipe_list_text(colls[c])]
    /\ cp' = [cp EXCEPT ![c].pc = AfterSaveText(colls[c]), ![c].i = 1]
    /\ UNCHANGED <<config, envVars, colls, mainVars, worker, trackerVars, sessionVars,
                   json_files, index, claimVars, started, failed, faults, call>>

\* variant: process_collection without its try/except, a failure of save_text
\* leaves process_single_collection as an exception
Coll_SaveTextFail_uncaught(c) ==
    /\ cp[c].pc = "save_text"
    /\ faults < MaxFaults
    /\ faults' = faults + 1
    /\ cp' = [cp EXCEPT ![c].pc = "exit", ![c].raised = TRUE]
    /\ UNCHANGED <<config, envVars, colls, mainVars, worker, trackerVars, sessionVars, outputVars,
                   claimVars, started, failed, call>>

\* save_text raises: lines 1115-1119
Coll_SaveTextFail(c) ==
    /\ cp[c].pc = "save_text"
    /\ faults < MaxFaults
    /\ faults' = faults + 1
    /\ errors' = add_error(errors, CollectionError(c))
    /\ cp' = [cp EXCEPT ![c].pc = "exit"]
    /\ UNCHANGED <<config, envVars, colls, mainVars, worker, recipe_states,
                   processed_collections, processed_recipes, sessionVars, outputVars,
                   claimVars, started, failed, call>>

\* variant: process_recipes_parallel returns without the cleanup pass
AfterCollect_no_cleanup(processed_list) == "increment"

\* where process_recipes_parallel goes once every future was consumed: the cleanup
\* loop over processed_recipes, then line 1109
AfterCollect(processed_list) == IF processed_list = <<>> THEN "increment" ELSE "cleanup"

\* variant: the recipe is submitted whatever mark_recipe_for_processing returned
Coll_Claim_submit_all(c) ==
    /\ cp[c].pc = "claim"
    /\ LET ref == colls[c].json_recipes[cp[c].i]
           id == colls[c].all_recipes[ref].id
           res == mark_recipe_for_processing(recipe_states, id)
           futs == Append(cp[c].futures, ItemFuture(ref))
           last == cp[c].i = Len(colls[c].json_recipes)
       IN  /\ recipe_states' = res.states
           /\ claim_calls' = [claim_calls EXCEPT ![id] = @ + 1]
           /\ claim_wins' = [claim_wins EXCEPT ![id] = @ + (IF res.ret THEN 1 ELSE 0)]
           /\ cp' = [cp EXCEPT ![c].futures = futs,
                               ![c].i = IF last THEN 1 ELSE cp[c].i + 1,
                               ![c].pc = IF ~last THEN "claim" ELSE "collect"]
    /\ UNCHANGED <<config, envVars, colls, mainVars, worker, processed_collections,
                   processed_recipes, errors, sessionVars, outputVars, started, failed,
                   faults, call>>

\* process_recipes_parallel, lines 1127-1130: one iteration of the loop
Coll_Claim(c) ==
    /\ cp[c].pc = "claim"
    /\ LET ref == colls[c].json_recipes[cp[c].i]
           id == colls[c].all_recipes[ref].id
           res == mark_recipe_for_processing(recipe_states, id)
           futs == IF res.ret THEN Append(cp[c].futures, ItemFuture(ref))
                   ELSE cp[c].futures
           last == cp[c].i = Len(colls[c].json_recipes)
       IN  /\ recipe_states' = res.states
           /\ claim_calls' = [claim_calls EXCEPT ![id] = @ + 1]
           /\ claim_wins' = [claim_wins EXCEPT ![id] = @ + (IF res.ret THEN 1 ELSE 0)]
           /\ cp' = [cp EXCEPT ![c].futures = futs,
                               ![c].i = IF last THEN 1 ELSE cp[c].i + 1,
                               ![c].pc = IF ~last THEN "claim"
                                         ELSE IF futs = <<>> THEN "increment"
                                         ELSE "collect"]
    /\ UNCHANGED <<config, envVars, colls, mainVars, worker, processed_collections,
                   processed_recipes, errors, sessionVars, outputVars, started, failed,
                   faults, call>>

\* variant: the as_completed loop is left with the first future it yields
AllCollected_first(futs, j) == TRUE

AllCollected(futs, j) == \A k \in 1..Len(futs) : k = j \/ futs[k].collected

\* lines 1134-1137: as_completed yields a future that returned its recipe
Coll_AsCompleted(c, j) ==
    /\ cp[c].pc = "collect"
    /\ j \in 1..Len(cp[c].futures)
    /\ cp[c].futures[j].pc = "done"
    /\ ~cp[c].futures[j].collected /\ ~cp[c].futures[j].raised
    /\ LET done == Append(cp[c].processed_recipes, cp[c].futures[j].recipe)
       IN  cp' = [cp EXCEPT ![c].futures[j].collected = TRUE,
                            ![c].processed_recipes = done,
                            ![c].pc = IF AllCollected(cp[c].futures, j)
                                      THEN AfterCollect(done) ELSE "collect"]
    /\ UNCHANGED <<config, envVars, colls, mainVars, worker, trackerVars, sessionVars,
                   outputVars, claimVars, started, failed, faults, call>>

\* lines 1138-1139: as_completed yields a future that holds an exception
Coll_AsCompletedRaised(c, j) ==
    /\ cp[c].pc = "collect"
    /\ j \in 1..Len(cp[c].futures)
    /\ cp[c].futures[j].pc = "done"
    /\ ~cp[c].futures[j].collected /\ cp[c].futures[j].raised
    /\ errors' = add_error(errors, FutureError)
    /\ cp' = [cp EXCEPT ![c].futures[j].collected = TRUE,
                        ![c].pc = IF AllCollected(cp[c].futures, j)
                                  THEN AfterCollect(cp[c].processed_recipes)
                                  ELSE "collect"]
    /\ UNCHANGED <<config, envVars, colls, mainVars, worker, recipe_states,
                   processed_collections, processed_recipes, sessionVars, outputVars,
                   claimVars, started, failed, faults, call>>

\* the cleanup loop moves to its next recipe, or ends
NextCleanup(f) ==
    IF f.i < Len(f.processed_recipes)
    THEN [f EXCEPT !.pc = "cleanup", !.i = f.i + 1]
    ELSE [f EXCEPT !.pc = "increment", !.i = 1]

\* cleanup_recipe_memory, line 1152: can_clear_memory
Coll_CleanupCheck(c) ==
    /\ cp[c].pc = "cleanup"
    /\ LET id == colls[c].all_recipes[cp[c].processed_recipes[cp[c].i]].id
       IN  cp' = [cp EXCEPT ![c] = IF can_clear_memory(recipe_states, id)
                                   THEN [cp[c] EXCEPT !.pc = "clear"]
                                   ELSE NextCleanup(cp[c])]
    /\ UNCHANGED <<config, envVars, colls, mainVars, worker, trackerVars, sessionVars,
                   outputVars, claimVars, started, failed, faults, call>>

\* variant: the pass counts every recipe it clears in processed_recipes
Coll_CleanupClear_counted(c) ==
    /\ cp[c].pc = "clear"
    /\ LET ref == cp[c].processed_recipes[cp[c].i]
           res == clear_memory_heavy_fields(colls[c].all_recipes[ref])
       IN  /\ colls' = [colls EXCEPT ![c].all_recipes[ref] = res.recipe]
           /\ recipe_states' = IF res.ok
                               THEN mark_recipe_memory_cleared(recipe_states, res.recipe.id)
                               ELSE recipe_states
           /\ processed_recipes' = increment_counters(processed_recipes,
                                                      IF res.ok THEN 1 ELSE 0)
    /\ cp' = [cp EXCEPT ![c] = NextCleanup(cp[c])]
    /\ UNCHANGED <<config, envVars, mainVars, worker, processed_collections,
                   errors, sessionVars, outputVars, claimVars, started, failed, faults,
                   call>>

\* cleanup_recipe_memory, lines 1157-1158
Coll_CleanupClear(c) ==
    /\ cp[c].pc = "clear"
    /\ LET ref == cp[c].processed_recipes[cp[c].i]
           res == clear_memory_heavy_fields(colls[c].all_recipes[ref])
       IN  /\ colls' = [colls EXCEPT ![c].all_recipes[ref] = res.recipe]
           /\ recipe_states' = IF res.ok
                               THEN mark_recipe_memory_cleared(recipe_states, res.recipe.id)
                               ELSE recipe_states
    /\ cp' = [cp EXCEPT ![c] = NextCleanup(cp[c])]
    /\ UNCHANGED <<config, envVars, mainVars, worker, processed_collections, processed_recipes,
                   errors, sessionVars, outputVars, claimVars, started, failed, faults,
                   call>>

\* line 1109
Coll_Increment(c) ==
    /\ cp[c].pc = "increment"
    /\ processed_collections' = increment_counters(processed_collections, 1)
    /\ cp' = [cp EXCEPT ![c].pc = "exit"]
    /\ UNCHANGED <<config, envVars, colls, mainVars, worker, recipe_states, processed_recipes,
                   errors, sessionVars, outputVars, claimVars, started, failed, faults,
                   call>>

\* CollectionProcessor.__exit__: close_driver; the future is resolved
Coll_Exit(c) ==
    /\ cp[c].pc = "exit"
    /\ open_sessions' = open_sessions - (IF cp[c].driver THEN 1 ELSE 0)
    /\ cp' = [cp EXCEPT ![c].pc = "done", ![c].driver = FALSE]
    /\ worker' = Release(c)
    /\ UNCHANGED <<config, envVars, colls, mainVars, trackerVars, leaked_sessions,
                   bootstrap_open, outputVars, claimVars, started, failed, faults, call>>

(***************************************************************************)
(* process_single_recipe / RecipeProcessor (recipe_executor of collection  *)
(* c, created by process_recipes_parallel with max_recipe_threads workers) *)
(***************************************************************************)
SetItem(c, j, f) == [cp EXCEPT ![c].futures[j] = f]

\* variant: recipe_executor without max_workers, a thread for every work item
ItemQueued_unbounded(c, j) ==
    /\ j \in 1..Len(cp[c].futures)
    /\ cp[c].futures[j].pc = "queued"
    /\ \A k \in 1..(j - 1) : cp[c].futures[k].pc # "queued"

\* the oldest queued work item of c's recipe_executor, and a thread free to take it
ItemQueued(c, j) ==
    /\ j \in 1..Len(cp[c].futures)
    /\ cp[c].futures[j].pc = "queued"
    /\ \A k \in 1..(j - 1) : cp[c].futures[k].pc # "queued"
    /\ Running(c) < config.max_recipe_threads

\* a thread of c's recipe_executor takes the work item and runs
\* process_single_recipe; RecipeProcessor.__enter__ raises
\* (create_authenticated_driver), so process_single_recipe raises and the future
\* holds the exception
Item_EnterFail(c, j, how) ==
    /\ ItemQueued(c, j)
    /\ faults < MaxFaults
    /\ faults' = faults + 1
    /\ open_sessions' = open_sessions + Leak(how)
    /\ leaked_sessions' = leaked_sessions + Leak(how)
    /\ failed' = failed \cup {ItemRecipe(c, j).id}
    /\ cp' = SetItem(c, j, [cp[c].futures[j] EXCEPT !.pc = "done", !.raised = TRUE])
    /\ UNCHANGED <<config, envVars, colls, mainVars, worker, trackerVars, bootstrap_open,
                   outputVars, claimVars, started, call>>

\* the same, with RecipeProcessor.__enter__ returning a driver, and then
\* process_recipe, lines 1201-1203: navigation, populateRecipeData,
\* mark_full_data_loaded (all local to the thread)
Item_Fetch(c, j) ==
    /\ ItemQueued(c, j)
    /\ open_sessions' = open_sessions + 1
    /\ started' = [started EXCEPT ![ItemRecipe(c, j).id] = @ + 1]
    /\ colls' = [colls EXCEPT ![c].all_recipes[cp[c].futures[j].recipe] =
                    mark_full_data_loaded(populateRecipeData(ItemRecipe(c, j)))]
    /\ cp' = SetItem(c, j, [cp[c].futures[j] EXCEPT !.pc = "export", !.driver = TRUE])
    /\ UNCHANGED <<config, envVars, mainVars, worker, trackerVars, leaked_sessions,
                   bootstrap_open, outputVars, claimVars, failed, faults, call>>

\* variant: the except block of process_recipe gives the id back, so that another
\* collection can claim it
Item_FetchFail_release(c, j) ==
    /\ ItemQueued(c, j)
    /\ faults < MaxFaults
    /\ faults' = faults + 1
    /\ open_sessions' = open_sessions + 1
    /\ started' = [started EXCEPT ![ItemRecipe(c, j).id] = @ + 1]
    /\ errors' = add_error(errors, RecipeError(c, j))
    /\ failed' = failed \cup {ItemRecipe(c, j).id}
    /\ recipe_states' = [recipe_states EXCEPT ![ItemRecipe(c, j).id] = None]
    /\ cp' = SetItem(c, j, [cp[c].futures[j] EXCEPT !.pc = "exit", !.driver = TRUE])
    /\ UNCHANGED <<config, envVars, colls, mainVars, worker, processed_collections,
                   processed_recipes, leaked_sessions, bootstrap_open, outputVars,
                   claimVars, call>>

\* the same, but lines 1201-1202 raise (navigation or extraction): lines 1229-1233
Item_FetchFail(c, j) ==
    /\ ItemQueued(c, j)
    /\ faults < MaxFaults
    /\ faults' = faults + 1
    /\ open_sessions' = open_sessions + 1
    /\ started' = [started EXCEPT ![ItemRecipe(c, j).id] = @ + 1]
    /\ errors' = add_error(errors, RecipeError(c, j))
    /\ failed' = failed \cup {ItemRecipe(c, j).id}
    /\ cp' = SetItem(c, j, [cp[c].futures[j] EXCEPT !.pc = "exit", !.driver = TRUE])
    /\ UNCHANGED <<config, envVars, colls, mainVars, worker, recipe_states,
                   processed_collections, processed_recipes, leaked_sessions,
                   bootstrap_open, outputVars, claimVars, call>>

\* variant: a failure of save_json is swallowed, the recipe is marked all the same
process_recipe_export_unchecked(r, written_ok) ==
    IF is_memory_cleared(r)
    THEN [recipe |-> r, written |-> FALSE, caught |-> TRUE]
    ELSE [recipe |-> mark_json_exported(r), written |-> written_ok, caught |-> FALSE]

\* process_recipe, lines 1206-1221 and 1229-1233: recipeToJSON and save_json, then
\* recipe.mark_json_exported; written_ok is whether save_json returned.
\* Returns the recipe, whether the file was written, whether the except block ran.
process_recipe_export(r, written_ok) ==
    IF is_memory_cleared(r) \/ ~written_ok
    THEN [recipe |-> r, written |-> FALSE, caught |-> TRUE]
    ELSE [recipe |-> mark_json_exported(r), written |-> TRUE, caught |-> FALSE]

ItemExport(c, j, written_ok) ==
    LET out == process_recipe_export(ItemRecipe(c, j), written_ok)
    IN  /\ colls' = [colls EXCEPT ![c].all_recipes[cp[c].futures[j].recipe] = out.recipe]
        /\ json_files' = [json_files EXCEPT ![out.recipe.id] =
                             @ + (IF out.written THEN 1 ELSE 0)]
        /\ errors' = IF out.caught THEN add_error(errors, RecipeError(c, j)) ELSE errors
        /\ failed' = IF out.caught \/ ~written_ok THEN failed \cup {out.recipe.id}
                      ELSE failed
        /\ cp' = SetItem(c, j, [cp[c].futures[j] EXCEPT
                                   !.pc = IF out.caught THEN "exit" ELSE "mark_exported"])

\* lines 1206-1221: the record is written
Item_Export(c, j) ==
    /\ j \in 1..Len(cp[c].futures)
    /\ cp[c].futures[j].pc = "export"
    /\ ItemExport(c, j, TRUE)
    /\ UNCHANGED <<config, envVars, mainVars, worker, recipe_states, processed_collections,
                   processed_recipes, sessionVars, text_files, index, claimVars,
                   started, faults, call>>

\* lines 1206-1218 raise (save_json): lines 1229-1233
Item_ExportFail(c, j) ==
    /\ j \in 1..Len(cp[c].futures)
    /\ cp[c].futures[j].pc = "export"
    /\ faults < MaxFaults
    /\ faults' = faults + 1
    /\ ItemExport(c, j, FALSE)
    /\ UNCHANGED <<config, envVars, mainVars, worker, recipe_states, processed_collections,
                   processed_recipes, sessionVars, text_files, index, claimVars,
                   started, call>>

\* variant: process_recipe marks the Recipe object only, line 1222 is left out
Item_MarkExported_untracked(c, j) ==
    /\ j \in 1..Len(cp[c].futures)
    /\ cp[c].futures[j].pc = "mark_exported"
    /\ cp' = SetItem(c, j, [cp[c].futures[j] EXCEPT !.pc = "increment"])
    /\ UNCHANGED <<config, envVars, colls, mainVars, worker, trackerVars, sessionVars,
                   outputVars, claimVars, started, failed, faults, call>>

\* line 1222
Item_MarkExported(c, j) ==
    /\ j \in 1..Len(cp[c].futures)
    /\ cp[c].futures[j].pc = "mark_exported"
    /\ recipe_states' = mark_recipe_json_exported(recipe_states, ItemRecipe(c, j).id)
    /\ cp' = SetItem(c, j, [cp[c].futures[j] EXCEPT !.pc = "increment"])
    /\ UNCHANGED <<config, envVars, colls, mainVars, worker, processed_collections,
                   processed_recipes, errors, sessionVars, outputVars, claimVars,
                   started, failed, faults, call>>

\* line 1223
Item_Increment(c, j) ==
    /\ j \in 1..Len(cp[c].futures)
    /\ cp[c].futures[j].pc = "increment"
    /\ processed_recipes' = increment_counters(processed_recipes, 1)
    /\ cp' = SetItem(c, j, [cp[c].futures[j] EXCEPT !.pc = "exit"])
    /\ UNCHANGED <<config, envVars, colls, mainVars, worker, recipe_states,
                   processed_collections, errors, sessionVars, outputVars, claimVars,
                   started, failed, faults, call>>

\* RecipeProcessor.__exit__: close_driver; the future is resolved with the recipe
Item_Exit(c, j) ==
    /\ j \in 1..Len(cp[c].futures)
    /\ cp[c].futures[j].pc = "exit"
    /\ open_sessions' = open_sessions - (IF cp[c].futures[j].driver THEN 1 ELSE 0)
    /\ cp' = SetItem(c, j, [cp[c].futures[j] EXCEPT !.pc = "done", !.driver = FALSE])
    /\ UNCHANGED <<config, envVars, colls, mainVars, worker, trackerVars, leaked_sessions,
                   bootstrap_open, outputVars, claimVars, started, failed, faults, call>>

(***************************************************************************)
(* The run                                                                 *)
(***************************************************************************)
\* the longest list of tiles a collection page shows
RECURSIVE MaxTiles(_)
MaxTiles(k) == IF k = 0 THEN 0
               ELSE IF Len(Site[k].tiles) > MaxTiles(k - 1) THEN Len(Site[k].tiles)
               ELSE MaxTiles(k - 1)
MaxItems == MaxTiles(NColl)

Next ==
    \/ Run_Discover
    \/ Run_Filter
    \/ Run_Submit
    \/ \E c \in 1..NColl : Run_AsCompleted(c)
    \/ \E c \in 1..NColl : Run_AsCompletedRaised(c)
    \/ Run_Return
    \/ Run_GenerateFinalOutputs
    \/ Run_Close
    \/ Run_PrintSummary
    \/ \E w \in DOMAIN worker, c \in 1..NColl : Coll_Enter(w, c)
    \/ \E w \in DOMAIN worker, c \in 1..NColl, how \in DriverFailures :
            Coll_EnterFail(w, c, how)
    \/ \E c \in 1..NColl : Coll_NavigateFail(c)
    \/ \E c \in 1..NColl : Coll_Populate(c)
    \/ \E c \in 1..NColl : Coll_PopulateFail(c)
    \/ \E c \in 1..NColl : Coll_SaveText(c)
    \/ \E c \in 1..NColl : Coll_SaveTextFail(c)
    \/ \E c \in 1..NColl : Coll_Claim(c)
    \/ \E c \in 1..NColl, j \in 1..MaxItems : Coll_AsCompleted(c, j)
    \/ \E c \in 1..NColl, j \in 1..MaxItems : Coll_AsCompletedRaised(c, j)
    \/ \E c \in 1..NColl : Coll_CleanupCheck(c)
    \/ \E c \in 1..NColl : Coll_CleanupClear(c)
    \/ \E c \in 1..NColl : Coll_Increment(c)
    \/ \E c \in 1..NColl : Coll_Exit(c)
    \/ \E c \in 1..NColl, j \in 1..MaxItems, how \in DriverFailures : Item_EnterFail(c, j, how)
    \/ \E c \in 1..NColl, j \in 1..MaxItems : Item_Fetch(c, j)
    \/ \E c \in 1..NColl, j \in 1..MaxItems : Item_FetchFail(c, j)
    \/ \E c \in 1..NColl, j \in 1..MaxItems : Item_Export(c, j)
    \/ \E c \in 1..NColl, j \in 1..MaxItems : Item_ExportFail(c, j)
    \/ \E c \in 1..NColl, j \in 1..MaxItems : Item_MarkExported(c, j)
    \/ \E c \in 1..NColl, j \in 1..MaxItems : Item_Increment(c, j)
    \/ \E c \in 1..NColl, j \in 1..MaxItems : Item_Exit(c, j)

Spec == Init /\ [][Next]_vars

\* the threads of both executors and the main thread keep running: a step that
\* can be taken is eventually taken
FairSpec == Spec /\ WF_vars(Next)

(***************************************************************************)
(* Runs started with --pattern: "A::o" (the collection "Asian", the recipes *)
(* with an "o" in their name), "::o" (no collection part) and "B" (no       *)
(* recipe part).                                                            *)
(***************************************************************************)
PatternChoices == {<<65, 58, 58, 111>>, <<58, 58, 111>>, <<66>>}

FilterConfigurations ==
    {create_config_from_args(1, t, TRUE, TRUE, p) : t \in {1, 2}, p \in PatternChoices}

FilterInit == InitWith(FilterConfigurations, <<>>)

FilterSpec == FilterInit /\ [][Next]_vars

(***************************************************************************)
(* Runs over either account, with or without --json, without --pattern or  *)
(* with "a::o" (every collection title has an "a"; of the recipes, "Pho"   *)
(* and "Poke" have an "o") or "B" (the collection "Bookmarks").            *)
(***************************************************************************)
SelectionPatterns == {NoPattern, <<97, 58, 58, 111>>, <<66>>}

SelectionConfigurations ==
    {create_config_from_args(1, 2, j, TRUE, p) : j \in BOOLEAN, p \in SelectionPatterns}

SelectionInit == InitOn(SelectionConfigurations, <<>>, {Site, SiteZ})

SelectionSpec == SelectionInit /\ [][Next]_vars

(***************************************************************************)
(* The result collector on its own: its methods called directly, in any    *)
(* order and for any id, each call atomic under self._lock.                *)
(***************************************************************************)
runVars == <<config, envVars, colls, mainVars, worker, cp, sessionVars, outputVars, started,
             failed, faults>>

Called(op, id, ret) == call' = [op |-> op, id |-> id, ret |-> ret, n |-> call.n + 1]

Call_mark_recipe_for_processing(id) ==
    /\ call.n < MaxCalls
    /\ LET res == mark_recipe_for_processing(recipe_states, id)
       IN  /\ recipe_states' = res.states
           /\ claim_calls' = [claim_calls EXCEPT ![id] = @ + 1]
           /\ claim_wins' = [claim_wins EXCEPT ![id] = @ + (IF res.ret THEN 1 ELSE 0)]
           /\ Called("mark_recipe_for_processing", id, res.ret)
    /\ UNCHANGED <<runVars, processed_collections, processed_recipes, errors>>

Call_mark_recipe_json_exported(id) ==
    /\ call.n < MaxCalls
    /\ recipe_states' = mark_recipe_json_exported(recipe_states, id)
    /\ Called("mark_recipe_json_exported", id, FALSE)
    /\ UNCHANGED <<runVars, claimVars, processed_collections, processed_recipes, errors>>

Call_can_clear_memory(id) ==
    /\ call.n < MaxCalls
    /\ Called("can_clear_memory", id, can_clear_memory(recipe_states, id))
    /\ UNCHANGED <<runVars, claimVars, trackerVars>>

Call_mark_recipe_memory_cleared(id) ==
    /\ call.n < MaxCalls
    /\ recipe_states' = mark_recipe_memory_cleared(recipe_states, id)
    /\ Called("mark_recipe_memory_cleared", id, FALSE)
    /\ UNCHANGED <<runVars, claimVars, processed_collections, processed_recipes, errors>>

Call_increment_counters(collections, recipes) ==
    /\ call.n < MaxCalls
    /\ processed_collections' = increment_counters(processed_collections, collections)
    /\ processed_recipes' = increment_counters(processed_recipes, recipes)
    /\ Called("increment_counters", <<>>, FALSE)
    /\ UNCHANGED <<runVars, claimVars, recipe_states, errors>>

Call_add_error ==
    /\ call.n < MaxCalls
    /\ errors' = add_error(errors, FutureError)
    /\ Called("add_error", <<>>, FALSE)
    /\ UNCHANGED <<runVars, claimVars, recipe_states, processed_collections,
                   processed_recipes>>

TrackerInit == Init /\ config = create_config_from_args(1, 1, TRUE, TRUE, NoPattern)

TrackerNext ==
    \/ \E id \in Ids : Call_mark_recipe_for_processing(id)
    \/ \E id \in Ids : Call_mark_recipe_json_exported(id)
    \/ \E id \in Ids : Call_can_clear_memory(id)
    \/ \E id \in Ids : Call_mark_recipe_memory_cleared(id)
    \/ \E k \in {<<1, 0>>, <<0, 1>>} : Call_increment_counters(k[1], k[2])
    \/ Call_add_error

TrackerSpec == TrackerInit /\ [][TrackerNext]_vars


(***************************************************************************)
(* Recipe objects on their own: the methods of the Recipes of one          *)
(* populated collection and cleanup_recipe_memory called directly, in any  *)
(* order, together with the collector methods that set the state of an id. *)
(***************************************************************************)
\* cleanup_recipe_memory, the body of its loop for one recipe:
\* returns the new recipe_states and the recipe
cleanup_recipe_memory(rs, r) ==
    IF can_clear_memory(rs, r.id)
    THEN LET res == clear_memory_heavy_fields(r)
         IN  [states |-> IF res.ok THEN mark_recipe_memory_cleared(rs, res.recipe.id)
                         ELSE rs,
              recipe |-> res.recipe]
    ELSE [states |-> rs, recipe |-> r]

objectVars == <<config, envVars, mainVars, worker, cp, sessionVars, outputVars, claimVars,
                started, failed, faults, processed_collections, processed_recipes,
                errors>>

\* process_recipe, lines 1201-1203, on recipe k of the collection
Recipe_populate(k) ==
    /\ call.n < MaxCalls
    /\ colls' = [colls EXCEPT ![1].all_recipes[k] =
                    mark_full_data_loaded(populateRecipeData(@))]
    /\ Called("populateRecipeData", colls[1].all_recipes[k].id, FALSE)
    /\ UNCHANGED <<objectVars, recipe_states>>

Recipe_mark_json_exported(k) ==
    /\ call.n < MaxCalls
    /\ colls' = [colls EXCEPT ![1].all_recipes[k] = mark_json_exported(@)]
    /\ Called("mark_json_exported", colls[1].all_recipes[k].id, FALSE)
    /\ UNCHANGED <<objectVars, recipe_states>>

Recipe_clear_memory_heavy_fields(k) ==
    /\ call.n < MaxCalls
    /\ LET res == clear_memory_heavy_fields(colls[1].all_recipes[k])
       IN  /\ colls' = [colls EXCEPT ![1].all_recipes[k] = res.recipe]
           /\ Called("clear_memory_heavy_fields", res.recipe.id, res.ok)
    /\ UNCHANGED <<objectVars, recipe_states>>

Call_cleanup_recipe_memory(k) ==
    /\ call.n < MaxCalls
    /\ LET res == cleanup_recipe_memory(recipe_states, colls[1].all_recipes[k])
       IN  /\ colls' = [colls EXCEPT ![1].all_recipes[k] = res.recipe]
           /\ recipe_states' = res.states
           /\ Called("cleanup_recipe_memory", res.recipe.id, FALSE)
    /\ UNCHANGED objectVars

\* the collection "Bookmarks" as populateCollectionData leaves it
RecipeInit ==
    InitWith({create_config_from_args(1, 1, TRUE, TRUE, NoPattern)},
             <<populateCollectionData(create_config_from_args(1, 1, TRUE, TRUE, NoPattern),
                                      Collection(Site[1].title, Site[1].colltype),
                                      Site[1].tiles)>>)

RecipeNext ==
    \/ \E k \in 1..Len(colls[1].all_recipes) : Recipe_populate(k)
    \/ \E k \in 1..Len(colls[1].all_recipes) : Recipe_mark_json_exported(k)
    \/ \E k \in 1..Len(colls[1].all_recipes) : Recipe_clear_memory_heavy_fields(k)
    \/ \E k \in 1..Len(colls[1].all_recipes) : Call_cleanup_recipe_memory(k)
    \/ \E k \in 1..Len(colls[1].all_recipes) :
          Call_mark_recipe_for_processing(colls[1].all_recipes[k].id)
    \/ \E k \in 1..Len(colls[1].all_recipes) :
          Call_mark_recipe_json_exported(colls[1].all_recipes[k].id)

RecipeSpec == RecipeInit /\ [][RecipeNext]_vars

(***************************************************************************)
(* Runs of CookidooScraper(config) with a configuration loaded from a file *)
(* (load_from_file), where continue_on_error is set to either value.       *)
(***************************************************************************)
load_from_file(cfg, key_continue_on_error) ==
    [cfg EXCEPT !.continue_on_error = key_continue_on_error]

PolicyConfigurations ==
    {load_from_file(create_config_from_args(1, t, TRUE, TRUE, NoPattern), b) :
        t \in {1, 2}, b \in BOOLEAN}

PolicyInit == InitWith(PolicyConfigurations, <<>>)

PolicySpec == PolicyInit /\ [][Next]_vars

(***************************************************************************)
(* Runs in which a CollectionProcessor may leave out the call of           *)
(* cleanup_recipe_memory (line 1142): the run without the cleanup pass,    *)
(* for any of the collections, next to the run with it.                    *)
(***************************************************************************)
Coll_SkipCleanup(c) ==
    /\ cp[c].pc = "cleanup" /\ cp[c].i = 1
    /\ cp' = [cp EXCEPT ![c].pc = "increment"]
    /\ UNCHANGED <<config, envVars, colls, mainVars, worker, trackerVars, sessionVars,
                   outputVars, claimVars, started, failed, faults, call>>

CleanupChoiceNext ==
    \/ Next
    \/ \E c \in 1..NColl : Coll_SkipCleanup(c)

CleanupChoiceSpec == Init /\ [][CleanupChoiceNext]_vars

(***************************************************************************)
(* generate_final_outputs on its own: called with the collections of the   *)
(* account after their pages showed any number of their tiles and the      *)
(* management page gave any count, or none, for the custom list.           *)
(***************************************************************************)
\* the largest count the management page shows
MaxCount == 3

\* official_recipe_count after _handle_custom_collection_counts: -1 unless the
\* management page lists the (custom) collection
OfficialCounts(colltype) == IF colltype = custom THEN (-1)..MaxCount ELSE {-1}

\* collection k of the account after discovery found n tiles on its page and the
\* management page gave the count official
DiscoveredCollection(k, n, official) ==
    [populateCollectionData(create_config_from_args(1, 1, FALSE, TRUE, NoPattern),
                            Collection(Site[k].title, Site[k].colltype),
                            SubSeq(Site[k].tiles, 1, n))
        EXCEPT !.official_recipe_count = official]

\* the lists of collections process_collections_parallel may return
DiscoveredCollections ==
    {cs \in [1..NColl -> UNION {{DiscoveredCollection(k, n, o) :
                                    n \in 0..Len(Site[k].tiles),
                                    o \in OfficialCounts(Site[k].colltype)} :
                                k \in 1..NColl}] :
        \A k \in 1..NColl : cs[k].title = Site[k].title}

IndexInit ==
    \E cs \in DiscoveredCollections :
        InitOn({create_config_from_args(1, 1, FALSE, TRUE, NoPattern)}, cs, {Site})

\* run(), line 1298: process_collections_parallel returns the collections
Run_Processed ==
    /\ mpc = "start"
    /\ mpc' = "index"
    /\ UNCHANGED <<config, envVars, colls, to_process, nsubmitted, processed,
                   worker, cp, trackerVars, sessionVars, outputVars, claimVars,
                   started, failed, faults, call>>

\* run(), lines 1298-1307
IndexNext ==
    \/ Run_Processed
    \/ Run_GenerateFinalOutputs
    \/ Run_Close
    \/ Run_PrintSummary

IndexSpec == IndexInit /\ [][IndexNext]_vars

(***************************************************************************)
(* scrollToEnd on its own, on a page that does what it likes: every        *)
(* find_elements sees the tiles rendered so far or more, and the "load     *)
(* more" button is there and clickable, or not, each time it is looked for.*)
(*   scroll.tiles: the tiles the page has rendered                         *)
(*   scroll.stale: the rounds of the loop completed in a row in which the  *)
(*                 page rendered no new tile                               *)
(***************************************************************************)
\* the most tiles the page renders
MaxPageTiles == 16
\* the most rounds without a new tile that are followed
MaxStale == 5

\* max_retries = config.max_scroll_retries if config else 3 (populateCollectionData
\* calls scrollToEnd(driver), without config)
max_retries == 3
\* `if currentElements % 15 != 0: break`
PageSize == 15

scrollFrame == <<config, site, summary, logger, colls, mainVars, worker, cp, trackerVars,
                 sessionVars, outputVars, claimVars, started, failed, faults, call>>

\* what a find_elements can see when the page had rendered t tiles
Seen(t) == t..MaxPageTiles

\* the loop goes on to its next round: line 755 after lines 750-751
NextRound(n3, cnt) ==
    [pc |-> "loop", tiles |-> n3, previousElements |-> n3, count |-> cnt,
     stale |-> IF n3 = scroll.tiles THEN scroll.stale + 1 ELSE 0]

\* lines 731-732: scrollToEnd is entered on a page with t tiles
Scroll_Enter(t) ==
    /\ scroll.pc = "idle"
    /\ scroll' = [pc |-> "loop", tiles |-> t, previousElements |-> 0, count |-> 0,
                  stale |-> 0]
    /\ UNCHANGED scrollFrame

\* lines 734-737: the page shows no tile, tiles[currentElements-1] raises IndexError
Scroll_Raise ==
    /\ scroll.pc = "loop"
    /\ scroll.tiles = 0
    /\ scroll' = [scroll EXCEPT !.pc = "raised"]
    /\ UNCHANGED scrollFrame

\* lines 734-741 and 752-755: the tiles counted differ from previousElements
Scroll_Progress(n2) ==
    /\ scroll.pc = "loop"
    /\ n2 \in Seen(scroll.tiles) /\ n2 > 0
    /\ n2 # scroll.previousElements
    /\ scroll' = [pc |-> "loop", tiles |-> n2, previousElements |-> n2, count |-> 0,
                  stale |-> IF n2 = scroll.tiles THEN scroll.stale ELSE 0]
    /\ UNCHANGED scrollFrame

\* lines 741-745 and 750-751: no new tile, the "load more" button is clicked
Scroll_LoadMore(n3) ==
    /\ scroll.pc = "loop"
    /\ scroll.tiles > 0 /\ scroll.tiles = scroll.previousElements
    /\ n3 \in Seen(scroll.tiles)
    /\ scroll.stale < MaxStale
    /\ scroll' = NextRound(n3, scroll.count)
    /\ UNCHANGED scrollFrame

\* lines 746-747: no new tile, no button, the last page of tiles is not full
Scroll_BreakPartialPage ==
    /\ scroll.pc = "loop"
    /\ scroll.tiles > 0 /\ scroll.tiles = scroll.previousElements
    /\ scroll.tiles % PageSize # 0
    /\ scroll' = [scroll EXCEPT !.pc = "done"]
    /\ UNCHANGED scrollFrame

\* lines 746-749: no new tile, no button, a full last page, the last retry
Scroll_BreakRetries ==
    /\ scroll.pc = "loop"
    /\ scroll.tiles > 0 /\ scroll.tiles = scroll.previousElements
    /\ scroll.tiles % PageSize = 0
    /\ scroll.count + 1 >= max_retries
    /\ scroll' = [scroll EXCEPT !.pc = "done", !.count = scroll.count + 1]
    /\ UNCHANGED scrollFrame

\* lines 746-751: no new tile, no button, a full last page, another retry
Scroll_Retry(n3) ==
    /\ scroll.pc = "loop"
    /\ scroll.tiles > 0 /\ scroll.tiles = scroll.previousElements
    /\ scroll.tiles % PageSize = 0
    /\ scroll.count + 1 < max_retries
    /\ n3 \in Seen(scroll.tiles)
    /\ scroll' = NextRound(n3, scroll.count + 1)
    /\ UNCHANGED scrollFrame

ScrollInit == InitWith({create_config_from_args(1, 1, TRUE, TRUE, NoPattern)}, <<>>)

ScrollNext ==
    \/ \E t \in 0..MaxPageTiles : Scroll_Enter(t)
    \/ Scroll_Raise
    \/ \E n \in 1..MaxPageTiles : Scroll_Progress(n)
    \/ \E n \in 1..MaxPageTiles : Scroll_LoadMore(n)
    \/ Scroll_BreakPartialPage
    \/ Scroll_BreakRetries
    \/ \E n \in 1..MaxPageTiles : Scroll_Retry(n)

ScrollSpec == ScrollInit /\ [][ScrollNext]_vars

(***************************************************************************)
(* ThreadSafePageLogger.__new__ called by several threads while _instance  *)
(* is None. A thread can be interrupted between any two statements; the    *)
(* body of `with cls._lock` is run by one thread at a time.                *)
(***************************************************************************)
loggerFrame == <<config, site, summary, scroll, colls, mainVars, worker, cp, trackerVars,
                 sessionVars, outputVars, claimVars, started, failed, faults, call>>

LoggerGoto(t, label) == [logger EXCEPT !.pc[t] = label]

\* line 56: `if cls._instance is None:`, read without the lock
Logger_Check(t) ==
    /\ logger.pc[t] = "start"
    /\ logger' = LoggerGoto(t, IF logger.instance.exists THEN "return" ELSE "acquire")
    /\ UNCHANGED loggerFrame

\* line 57: `with cls._lock:`
Logger_Acquire(t) ==
    /\ logger.pc[t] = "acquire"
    /\ logger.lock = 0
    /\ logger' = [LoggerGoto(t, "check") EXCEPT !.lock = t]
    /\ UNCHANGED loggerFrame

\* line 58: `if cls._instance is None:`, read under the lock
Logger_CheckLocked(t) ==
    /\ logger.pc[t] = "check"
    /\ logger' = LoggerGoto(t, IF logger.instance.exists THEN "release" ELSE "new")
    /\ UNCHANGED loggerFrame

\* line 59: `cls._instance = super().__new__(cls)`: the new object, which has
\* none of the attributes yet, is assigned to the class attribute
Logger_New(t) ==
    /\ logger.pc[t] = "new"
    /\ logger' = [LoggerGoto(t, "file_lock") EXCEPT
                      !.instance = [NoInstance EXCEPT !.exists = TRUE],
                      !.created = @ + 1]
    /\ UNCHANGED loggerFrame

\* line 60
Logger_SetFileLock(t) ==
    /\ logger.pc[t] = "file_lock"
    /\ logger' = [LoggerGoto(t, "log_file") EXCEPT !.instance.file_lock = TRUE]
    /\ UNCHANGED loggerFrame

\* line 61
Logger_SetLogFile(t) ==
    /\ logger.pc[t] = "log_file"
    /\ logger' = [LoggerGoto(t, "thread_timings") EXCEPT !.instance.log_file = TRUE]
    /\ UNCHANGED loggerFrame

\* line 63
Logger_SetThreadTimings(t) ==
    /\ logger.pc[t] = "thread_timings"
    /\ logger' = [LoggerGoto(t, "timing_lock") EXCEPT !.instance.thread_timings = TRUE]
    /\ UNCHANGED loggerFrame

\* line 64
Logger_SetTimingLock(t) ==
    /\ logger.pc[t] = "timing_lock"
    /\ logger' = [LoggerGoto(t, "release") EXCEPT !.instance.timing_lock = TRUE]
    /\ UNCHANGED loggerFrame

\* the end of the `with` block: _lock is released
Logger_Release(t) ==
    /\ logger.pc[t] = "release"
    /\ logger' = [LoggerGoto(t, "return") EXCEPT !.lock = 0]
    /\ UNCHANGED loggerFrame

\* line 65: `return cls._instance`: the caller has the object as it is now
Logger_Return(t) ==
    /\ logger.pc[t] = "return"
    /\ logger' = [LoggerGoto(t, "done") EXCEPT !.received[t] = logger.instance]
    /\ UNCHANGED loggerFrame

LoggerInit == InitWith({create_config_from_args(1, 1, TRUE, TRUE, NoPattern)}, <<>>)

LoggerNext ==
    \E t \in LoggerThreads :
        \/ Logger_Check(t)
        \/ Logger_Acquire(t)
        \/ Logger_CheckLocked(t)
        \/ Logger_New(t)
        \/ Logger_SetFileLock(t)
        \/ Logger_SetLogFile(t)
        \/ Logger_SetThreadTimings(t)
        \/ Logger_SetTimingLock(t)
        \/ Logger_Release(t)
        \/ Logger_Return(t)

LoggerSpec == LoggerInit /\ [][LoggerNext]_vars

(***************************************************************************)
(* The run with scrollToEnd inside it: populateCollectionData calls        *)
(* scrollToEnd for a custom collection (lines 500-502) and goes on when it *)
(* has returned. Every call to the browser returns; the page has a tile    *)
(* when scrollToEnd is entered.                                            *)
(***************************************************************************)
\* a CollectionProcessor is in populateCollectionData of a custom collection
Scrolling ==
    \E c \in DOMAIN colls : colls[c].colltype = custom /\ cp[c].pc = "navigate"

\* line 502: populateCollectionData calls scrollToEnd
Populate_Scroll(t) ==
    /\ Scrolling
    /\ Scroll_Enter(t)

\* lines 741-745: no new tile, and the click on the "load more" button returns
Scroll_Click ==
    /\ scroll.pc = "loop"
    /\ scroll.tiles > 0 /\ scroll.tiles = scroll.previousElements
    /\ scroll' = [scroll EXCEPT !.pc = "clicked"]
    /\ UNCHANGED scrollFrame

\* lines 750-755 after the click: the tiles are counted, the next round begins
Scroll_Recount(n3) ==
    /\ scroll.pc = "clicked"
    /\ n3 \in Seen(scroll.tiles)
    /\ scroll' = [NextRound(n3, scroll.count) EXCEPT !.stale = Min(@, MaxStale)]
    /\ UNCHANGED scrollFrame

\* a `break` of the loop was taken: scrollToEnd returns, its locals are gone
Scroll_Return ==
    /\ scroll.pc = "done"
    /\ scroll' = [ScrollIdle EXCEPT !.pc = "returned"]
    /\ UNCHANGED scrollFrame

\* lines 502-515: the tiles of a custom collection are read after scrollToEnd
\* has returned
PopulateAfterScroll ==
    \A c \in DOMAIN colls :
        (/\ colls[c].colltype = custom
         /\ cp[c].pc = "navigate" /\ cp'[c].pc = "save_text"
         /\ faults' = faults) => scroll.pc = "returned"

ScrolledRunNext ==
    \/ Next /\ PopulateAfterScroll
    \/ \E t \in 1..MaxPageTiles : Populate_Scroll(t)
    \/ \E n \in 1..MaxPageTiles : Scroll_Progress(n)
    \/ Scroll_Click
    \/ \E n \in 1..MaxPageTiles : Scroll_Recount(n)
    \/ Scroll_BreakPartialPage
    \/ Scroll_BreakRetries
    \/ \E n \in 1..MaxPageTiles : Scroll_Retry(n)
    \/ Scroll_Return

\* one collection thread, one recipe thread; every thread that can take a step
\* eventually takes one
ScrolledRunSpec ==
    /\ ScrollInit
    /\ [][ScrolledRunNext]_vars
    /\ WF_vars(ScrolledRunNext)

(***************************************************************************)
(* Properties                                                              *)
(***************************************************************************)
\* C1: for every recipe id, however many calls of mark_recipe_for_processing are
\* made with that id and however they interleave with the other collector
\* methods, exactly one of them returned True (all the others returned False).
ClaimReturnsTrueExactlyOnce ==
    /\ \A i \in Ids : claim_calls[i] >= 1 => claim_wins[i] = 1
    /\ call.op = "mark_recipe_for_processing" =>
          (call.ret <=> claim_calls[call.id] = 1)

\* an id claimed three times, with other collector calls in between
ClaimReturnsTrueExactlyOnce_Witness ==
    \E i \in Ids :
        /\ claim_calls[i] >= 3
        /\ claim_wins[i] = 1
        /\ recipe_states[i] = MEMORY_CLEARED
        /\ call.op = "mark_recipe_for_processing" /\ call.id = i /\ ~call.ret

\* C2: in a run, process_recipe is started at most once per recipe id and at most
\* one JSON file is written per id, also for ids listed by several collections
\* that run concurrently; when the run ended without a failure the ids with a
\* JSON file are exactly the distinct ids selected for export.
ProcessedAtMostOnce ==
    /\ \A i \in Ids : started[i] <= 1 /\ json_files[i] <= 1 /\ claim_wins[i] <= 1
    /\ (mpc = "done" /\ faults = 0) =>
          LET selected == UNION {{colls[c].all_recipes[colls[c].json_recipes[k]].id :
                                     k \in 1..Len(colls[c].json_recipes)} :
                                 c \in 1..Len(colls)}
          IN  {i \in Ids : json_files[i] = 1} = selected

\* collections {A,B}, {B,C}, {A,D} with two collection threads and no failure:
\* six selections, four JSON files
ProcessedAtMostOnce_Witness ==
    /\ mpc = "done" /\ faults = 0
    /\ config.max_collection_threads = 2
    /\ Len(colls[1].json_recipes) + Len(colls[2].json_recipes)
          + Len(colls[3].json_recipes) = 6
    /\ \A i \in Ids : claim_calls[i] = (IF i \in {A, B} THEN 2 ELSE 1)
    /\ Cardinality({i \in Ids : json_files[i] = 1}) = 4
    /\ processed_recipes = 4

\* C3: in a run, the state recipe_states holds for an id only moves forward in the
\* order absent, loaded, exported, cleared, and an id becomes cleared only from
\* exported.
LifecycleMonotone ==
    [][\A i \in Ids :
          LET Rank(st) == CASE st = None -> 0
                            [] st = BASIC_INFO_ONLY -> 1
                            [] st = FULL_DATA_LOADED -> 2
                            [] st = JSON_EXPORTED -> 3
                            [] st = MEMORY_CLEARED -> 4
          IN  /\ Rank(recipe_states'[i]) >= Rank(recipe_states[i])
              /\ recipe_states'[i] = MEMORY_CLEARED /\ recipe_states[i] # MEMORY_CLEARED
                    => recipe_states[i] = JSON_EXPORTED]_vars

\* a finished run in which one id went all the way to cleared and another one
\* stopped at loaded because its processing failed
LifecycleMonotone_Witness ==
    /\ mpc = "done"
    /\ \E i \in Ids : recipe_states[i] = MEMORY_CLEARED /\ json_files[i] = 1
    /\ \E i \in failed : recipe_states[i] = FULL_DATA_LOADED

\* C4: in a run, a recipe whose content was loaded has its heavy fields emptied
\* (or is marked cleared, in the object or in recipe_states) only if the JSON
\* file of its id has been written.
ClearedOnlyAfterWritten ==
    /\ \A c \in 1..Len(colls) : \A k \in 1..Len(colls[c].all_recipes) :
          LET r == colls[c].all_recipes[k]
          IN  (r.memory_state = MEMORY_CLEARED
                  \/ (r.memory_state # BASIC_INFO_ONLY /\ ~r.heavy))
                 => json_files[r.id] >= 1
    /\ \A i \in Ids : recipe_states[i] = MEMORY_CLEARED => json_files[i] >= 1

\* a recipe was cleared after its file was written, while the write of another
\* recipe failed and that one keeps its content
ClearedOnlyAfterWritten_Witness ==
    \E c \in 1..Len(colls) : \E k, m \in 1..Len(colls[c].all_recipes) :
        /\ colls[c].all_recipes[k].memory_state = MEMORY_CLEARED
        /\ ~colls[c].all_recipes[k].heavy
        /\ json_files[colls[c].all_recipes[k].id] = 1
        /\ colls[c].all_recipes[m].memory_state = FULL_DATA_LOADED
        /\ colls[c].all_recipes[m].heavy
        /\ colls[c].all_recipes[m].id \in failed
        /\ json_files[colls[c].all_recipes[m].id] = 0
        /\ cp[c].pc = "done"

\* C5: when the run has ended, processed_recipes is the number of claimed ids minus
\* the number of ids whose processing failed, every claimed id that did not fail
\* has its JSON file, and every collection that did not fail itself is counted
\* in processed_collections.
FailureIsolated ==
    mpc = "done" =>
        LET claimed == {i \in Ids : recipe_states[i] # None}
            broken == {c \in 1..NColl : CollectionError(c) \in
                                            {errors[e] : e \in 1..Len(errors)}}
        IN  /\ failed \subseteq claimed
            /\ processed_recipes = Cardinality(claimed) - Cardinality(failed)
            /\ \A i \in claimed \ failed : json_files[i] = 1
            /\ processed_collections = Len(to_process) - Cardinality(broken)

\* the run ended, one recipe failed, and a recipe of the same collection and all
\* collections completed
FailureIsolated_Witness ==
    /\ mpc = "done"
    /\ processed_collections = NColl
    /\ Cardinality(failed) = 1
    /\ processed_recipes = 3
    /\ \E c \in 1..NColl : \E j, k \in 1..Len(cp[c].futures) :
          /\ ItemRecipe(c, j).id \in failed
          /\ ItemRecipe(c, k).id \notin failed
          /\ json_files[ItemRecipe(c, k).id] = 1

\* C6: in every state of a run, the number of open browser sessions (the session
\* of ScraperSetup and the sessions create_authenticated_driver started and
\* nobody closed) is at most max_collection_threads * (1 + max_recipe_threads).
SessionsWithinBound ==
    open_sessions + (IF bootstrap_open THEN 1 ELSE 0)
        <= config.max_collection_threads * (1 + config.max_recipe_threads)

\* C7, as stated: over all collections together, at most max_recipe_threads
\* process_recipe tasks run at any time.
OneSharedRecipePool ==
    Cardinality({x \in (1..NColl) \X (1..MaxItems) :
                    /\ x[2] <= Len(cp[x[1]].futures)
                    /\ cp[x[1]].futures[x[2]].pc \notin {"queued", "done"}})
        <= config.max_recipe_threads

\* C7, amended: every collection has its own recipe_executor: at most
\* max_recipe_threads process_recipe tasks of one collection run at any time, and
\* at most max_collection_threads * max_recipe_threads over all collections.
RecipePoolPerCollection ==
    /\ \A c \in 1..NColl : Running(c) <= config.max_recipe_threads
    /\ Cardinality({x \in (1..NColl) \X (1..MaxItems) :
                       /\ x[2] <= Len(cp[x[1]].futures)
                       /\ cp[x[1]].futures[x[2]].pc \notin {"queued", "done"}})
          <= config.max_collection_threads * config.max_recipe_threads

\* the recipe_executor of one collection runs max_recipe_threads tasks while the
\* recipe_executor of another collection runs a task too
RecipePoolPerCollection_Witness ==
    \E c, d \in 1..NColl :
        /\ c # d
        /\ config.max_recipe_threads = 2
        /\ Running(c) = config.max_recipe_threads
        /\ Running(d) >= 1
        /\ Running(c) + Running(d) > config.max_recipe_threads

\* C8: at most max_collection_threads CollectionProcessors are active, each run by
\* one thread of collection_executor; a thread takes a collection only when it is
\* idle and leaves one only when process_single_collection has returned with
\* every recipe future of the collection resolved.
CollectionRunsToCompletion ==
    /\ [](/\ Cardinality(ActiveCollections) <= config.max_collection_threads
          /\ ActiveCollections = {worker[w] : w \in DOMAIN worker} \ {0}
          /\ \A v, w \in DOMAIN worker : worker[v] = worker[w] /\ v # w => worker[v] = 0
          /\ \A c \in 1..NColl : cp[c].pc = "done" =>
                \A j \in 1..Len(cp[c].futures) : cp[c].futures[j].pc = "done")
    /\ [][\A w \in DOMAIN worker :
             worker'[w] # worker[w] =>
                \/ worker[w] = 0
                \/ /\ worker'[w] = 0
                   /\ cp'[worker[w]].pc = "done"
                   /\ \A j \in 1..Len(cp'[worker[w]].futures) :
                         cp'[worker[w]].futures[j].pc = "done"]_vars

\* every thread of collection_executor is busy, a collection waits in the queue,
\* and one collection has already been run to completion with its recipe tasks
CollectionRunsToCompletion_Witness ==
    /\ Cardinality(ActiveCollections) = config.max_collection_threads
    /\ \E c \in 1..NColl : cp[c].pc = "queued"
    /\ \E c \in 1..NColl : cp[c].pc = "done" /\ Len(cp[c].futures) = 2
    /\ \E c \in ActiveCollections : Running(c) >= 1

\* C9: the master index, once written, lists one row per collection in ascending
\* order of (colltype, title); when no step failed it is the same sequence of
\* rows whatever the order in which the collections finished.
IndexSortedByKindAndTitle ==
    index # NoFile =>
        /\ Len(index) = NColl
        /\ \A c \in 1..NColl : \E k \in 1..Len(index) :
              index[k] = <<master_index_count(colls[c]), colls[c].colltype, colls[c].title>>
        /\ \A k \in 1..(Len(index) - 1) :
              \/ StrLess(index[k][2], index[k + 1][2])
              \/ index[k][2] = index[k + 1][2] /\ StrLess(index[k][3], index[k + 1][3])
        /\ faults = 0 => index = << <<2, bookmark, Bookmarks>>,
                                    <<2, created, CreatedRecipes>>,
                                    <<3, custom, Asian>> >>

\* the index is written after the collections finished in the order Asian,
\* Created recipes, Bookmarks, the reverse of the order of the index
IndexSortedByKindAndTitle_Witness ==
    /\ index # NoFile
    /\ faults = 0
    /\ processed = <<3, 2, 1>>

\* C10: a call of mark_recipe_json_exported sets the id's state to exported when
\* the state is loaded (claimed) and leaves recipe_states unchanged when the id
\* is absent, already exported or cleared.
MarkExportedOnlyFromLoaded ==
    [][(call'.n = call.n + 1 /\ call'.op = "mark_recipe_json_exported") =>
          IF recipe_states[call'.id] \in {BASIC_INFO_ONLY, FULL_DATA_LOADED}
          THEN recipe_states' = [recipe_states EXCEPT ![call'.id] = JSON_EXPORTED]
          ELSE recipe_states' = recipe_states]_vars

\* C11: a call of mark_recipe_memory_cleared sets the id's state to cleared only
\* when the state is exported, and leaves recipe_states unchanged in every other
\* state (absent, loaded, already cleared).
MarkMemoryClearedOnlyFromExported ==
    [][(call'.n = call.n + 1 /\ call'.op = "mark_recipe_memory_cleared") =>
          IF recipe_states[call'.id] = JSON_EXPORTED
          THEN recipe_states' = [recipe_states EXCEPT ![call'.id] = MEMORY_CLEARED]
          ELSE recipe_states' = recipe_states]_vars

\* C12: a call of can_clear_memory returns True exactly when the state of the id is
\* exported (False for an absent id and for loaded and cleared), and changes
\* neither recipe_states nor the counters nor the error list.
CanClearMemoryIffExported ==
    [][(call'.n = call.n + 1 /\ call'.op = "can_clear_memory") =>
          /\ call'.ret <=> recipe_states[call'.id] = JSON_EXPORTED
          /\ UNCHANGED <<recipe_states, processed_collections, processed_recipes,
                         errors>>]_vars

\* can_clear_memory has just returned True for an exported id, while another id
\* is loaded and another one absent
CanClearMemoryIffExported_Witness ==
    /\ call.op = "can_clear_memory" /\ call.ret
    /\ recipe_states[call.id] = JSON_EXPORTED
    /\ \E i \in Ids : recipe_states[i] = FULL_DATA_LOADED
    /\ \E i \in Ids : recipe_states[i] = None

\* C13: a call of mark_recipe_for_processing that returns False changes nothing:
\* recipe_states (the id's state and every other id's), processed_collections,
\* processed_recipes and errors are as before.
RefusedClaimChangesNothing ==
    [][(call'.n = call.n + 1 /\ call'.op = "mark_recipe_for_processing"
           /\ ~call'.ret) =>
          UNCHANGED <<recipe_states, processed_collections, processed_recipes,
                      errors>>]_vars

\* a claim has just been refused for an id that had advanced to exported, with a
\* counter and the error list not empty
RefusedClaimChangesNothing_Witness ==
    /\ call.op = "mark_recipe_for_processing" /\ ~call.ret
    /\ recipe_states[call.id] = JSON_EXPORTED
    /\ claim_calls[call.id] = 2
    /\ processed_recipes = 1
    /\ errors # <<>>

\* C14: clear_memory_heavy_fields called on a recipe that is not exported (basic,
\* loaded, or already cleared) returns False and leaves the recipe's fields and
\* state as they are; cleanup_recipe_memory on such a recipe changes neither the
\* recipe nor recipe_states (mark_recipe_memory_cleared is not called).
ClearRefusedUnlessExported ==
    [][\A k \in 1..Len(colls[1].all_recipes) :
          LET r == colls[1].all_recipes[k]
          IN  (call'.n = call.n + 1 /\ call'.id = r.id
                  /\ r.memory_state # JSON_EXPORTED) =>
                 /\ call'.op = "clear_memory_heavy_fields" =>
                       ~call'.ret /\ colls' = colls
                 /\ call'.op = "cleanup_recipe_memory" =>
                       colls' = colls /\ recipe_states' = recipe_states]_vars

\* the collector holds exported for an id, the Recipe object is only loaded:
\* cleanup_recipe_memory has run for it, the recipe keeps its fields and the id is
\* still exported
ClearRefusedUnlessExported_Witness ==
    \E k \in 1..Len(colls[1].all_recipes) :
        /\ call.op = "cleanup_recipe_memory"
        /\ call.id = colls[1].all_recipes[k].id
        /\ recipe_states[call.id] = JSON_EXPORTED
        /\ colls[1].all_recipes[k].memory_state = FULL_DATA_LOADED
        /\ colls[1].all_recipes[k].heavy

\* C15: when the run has ended, no browser session that create_authenticated_driver
\* started for a CollectionProcessor or a RecipeProcessor is open.
NoWorkerSessionOpenAtEnd ==
    mpc = "done" => open_sessions = 0

DiscoveryFailureRecordedAndSkipped ==
    mpc = "done" =>
        LET undiscovered == {c \in 1..NColl : colls[c].all_recipes = <<>>}
        IN  /\ \A c \in undiscovered :
                  \E e \in 1..Len(errors) : errors[e] = CollectionError(c)
            /\ processed_collections <= NColl - Cardinality(undiscovered)

\* C19: once process_collections_parallel has filtered the collections, a
\* collection is in collections_to_process exactly when it is a saved collection
\* and --saved is set, or the configuration has no collection pattern, or the
\* collection pattern matches its title.
InclusionPredicate ==
    mpc \notin {"start", "filter"} =>
        \A c \in 1..NColl :
            (\E k \in 1..Len(to_process) : to_process[k] = c)
               <=> \/ colls[c].colltype = saved /\ config.saved_collections
                   \/ config.collection_pattern = NoPattern
                   \/ Search(config.collection_pattern, colls[c].title)

\* C20: a collection for which should_process_collection is False is never
\* submitted: no CollectionProcessor and no session for it, its page is not read,
\* no file of it is written, no recipe that only it lists is claimed, and
\* processed_collections counts at most the other collections.
SkippedCollectionUntouched ==
    Len(colls) = NColl =>
        LET included == {c \in 1..NColl : should_process_collection(config, colls[c])}
        IN  /\ \A c \in (1..NColl) \ included :
                  /\ cp[c] = CollectionFuture
                  /\ \A w \in DOMAIN worker : worker[w] # c
                  /\ colls[c].all_recipes = <<>>
                  /\ text_files[c] = NoFile
            /\ \A i \in Ids :
                  claim_calls[i] > 0 =>
                     \E c \in included : \E k \in 1..Len(Site[c].tiles) :
                         Site[c].tiles[k].id = i
            /\ processed_collections <= Cardinality(included)

\* a run with --pattern "A::o" has ended: Bookmarks and Created recipes were
\* skipped, Asian was processed and its two recipes exported, and the recipes B
\* and C, which only the skipped collections list, were never claimed
SkippedCollectionUntouched_Witness ==
    /\ mpc = "done"
    /\ to_process = <<3>>
    /\ cp[1] = CollectionFuture /\ cp[2] = CollectionFuture
    /\ processed_collections = 1
    /\ processed_recipes = 2
    /\ claim_calls[B] = 0 /\ claim_calls[C] = 0
    /\ json_files[A] = 1 /\ json_files[D] = 1

\* the references of json_recipes / of the submitted futures of collection c
JsonRefs(c) == {colls[c].json_recipes[k] : k \in 1..Len(colls[c].json_recipes)}
SubmittedRefs(c) == {cp[c].futures[j].recipe : j \in 1..Len(cp[c].futures)}

\* C21, as stated: when a CollectionProcessor has returned, json_recipes holds
\* exactly the recipes for which this collection won the claim (the recipes it
\* submitted to its recipe_executor).
ExportedItemsAreClaimWins ==
    \A c \in 1..Len(colls) :
        (cp[c].pc = "done" /\ ~cp[c].raised
            /\ \A e \in 1..Len(errors) : errors[e] # CollectionError(c)) =>
           JsonRefs(c) = SubmittedRefs(c)

\* C21, amended: json_recipes is filled by populateCollectionData, before any
\* claim: it holds every discovered recipe selected for export, whatever the claim
\* outcome. The claim decides what is submitted: the futures of a collection are
\* recipes of its json_recipes, every id is submitted by as many collections as
\* claims were won for it (at most one), and a recipe of json_recipes that a
\* collection which completed did not submit was submitted by another collection.
ExportListKeepsLostClaims ==
    /\ \A c \in 1..Len(colls) :
          /\ JsonRefs(c) = {k \in 1..Len(colls[c].all_recipes) :
                               should_add_to_json(config, colls[c],
                                                  colls[c].all_recipes[k].title)}
          /\ \A k \in 1..(Len(colls[c].json_recipes) - 1) :
                colls[c].json_recipes[k] < colls[c].json_recipes[k + 1]
          /\ SubmittedRefs(c) \subseteq JsonRefs(c)
          /\ Cardinality(SubmittedRefs(c)) = Len(cp[c].futures)
          /\ (cp[c].pc = "done" /\ ~cp[c].raised
                 /\ \A e \in 1..Len(errors) : errors[e] # CollectionError(c)) =>
                \A r \in JsonRefs(c) \ SubmittedRefs(c) :
                    \E d \in (1..Len(colls)) \ {c} : \E j \in 1..Len(cp[d].futures) :
                        ItemRecipe(d, j).id = colls[c].all_recipes[r].id
    /\ \A i \in Ids :
          Cardinality({x \in (1..Len(colls)) \X (1..MaxItems) :
                          /\ x[2] <= Len(cp[x[1]].futures)
                          /\ ItemRecipe(x[1], x[2]).id = i}) = claim_wins[i]

\* Created recipes has returned: B and C are in its json_recipes, it lost the claim
\* of B to Bookmarks and submitted only C, and the file of B was written
ExportListKeepsLostClaims_Witness ==
    /\ cp[2].pc = "done" /\ processed_collections >= 1
    /\ Len(colls[2].json_recipes) = 2
    /\ Len(cp[2].futures) = 1 /\ ItemRecipe(2, 1).id = C
    /\ \E j \in 1..Len(cp[1].futures) : ItemRecipe(1, j).id = B
    /\ json_files[B] = 1 /\ json_files[C] = 1

\* the collections whose page has been read (populateCollectionData has returned)
Discovered == {c \in 1..Len(colls) : cp[c].pc \notin {"unsubmitted", "queued", "navigate"}
                                       /\ ~cp[c].raised
                                       /\ \A e \in 1..Len(errors) :
                                             errors[e] # CollectionError(c)
                                             \/ text_files[c] # NoFile}

\* C22: all_recipes holds one Recipe per tile of the collection page, in the order
\* of the page, whether or not the recipe is selected for export (pattern,
\* exclusion) and whoever claims it; actual_recipe_count is the number of tiles
\* and the length of all_recipes; both are 0 only when the page was not read or
\* its extraction raised.
AllStubsRecorded ==
    \A c \in 1..Len(colls) :
        /\ colls[c].actual_recipe_count = Len(colls[c].all_recipes)
        /\ Len(colls[c].all_recipes) \in {0, Len(site[c].tiles)}
        /\ \A k \in 1..Len(colls[c].all_recipes) :
              /\ colls[c].all_recipes[k].id = site[c].tiles[k].id
              /\ colls[c].all_recipes[k].title = site[c].tiles[k].name
        /\ (c \in Discovered /\ faults = 0) =>
              colls[c].actual_recipe_count = Len(site[c].tiles)
        /\ (c \in Discovered /\ colls[c].all_recipes = <<>>) =>
              /\ faults >= 1
              /\ colls[c].actual_recipe_count = 0 /\ colls[c].json_recipes = <<>>

\* a run with --pattern "a::o" on the account with "zzTarts" has ended: every
\* collection has its two recipes in all_recipes and a count of 2, while
\* json_recipes holds one recipe of Bookmarks (pattern), none of Created recipes
\* (pattern) and none of zzTarts (excluded)
AllStubsRecorded_Witness ==
    /\ mpc = "done" /\ faults = 0
    /\ site = SiteZ /\ config.recipe_pattern = <<111>> /\ config.json_export
    /\ \A c \in 1..NColl : Len(colls[c].all_recipes) = 2 /\ colls[c].actual_recipe_count = 2
    /\ Len(colls[1].json_recipes) = 1
    /\ colls[2].json_recipes = <<>> /\ colls[3].json_recipes = <<>>
    /\ processed_recipes = 1

\* the collections of the account that list recipe id i on their page
ListedBy(i) == {c \in 1..NColl : \E k \in 1..Len(site[c].tiles) : site[c].tiles[k].id = i}

\* the collections whose title matches one of excluded_collection_patterns
Excluded == {c \in 1..Len(colls) : is_collection_excluded_from_json(config, colls[c].title)}

\* C23: a collection whose title matches an exclusion pattern is listed but not
\* exported: its listing is written with every recipe of its page, its
\* json_recipes stays empty, it claims and submits nothing (a recipe is claimed
\* at most once per other collection that lists it, a recipe that only excluded
\* collections list is never claimed), and when the run ended without a failure
\* every recipe selected by another collection has its JSON file.
ExcludedListedNotExported ==
    /\ \A c \in Excluded :
          /\ colls[c].json_recipes = <<>>
          /\ cp[c].futures = <<>>
          /\ cp[c].pc \notin {"claim", "collect", "cleanup", "clear"}
          /\ text_files[c] # NoFile =>
                /\ text_files[c] = recipe_list_text(colls[c])
                /\ Len(text_files[c]) = Len(colls[c].all_recipes)
          /\ (cp[c].pc = "done" /\ faults = 0) =>
                Len(text_files[c]) = Len(site[c].tiles)
          /\ index # NoFile =>
                \E k \in 1..Len(index) :
                    index[k] = <<master_index_count(colls[c]), colls[c].colltype,
                                 colls[c].title>>
    /\ \A i \in Ids : claim_calls[i] <= Cardinality(ListedBy(i) \ Excluded)
    /\ (mpc = "done" /\ faults = 0) =>
          \A c \in (1..NColl) \ Excluded : \A k \in 1..Len(colls[c].json_recipes) :
              json_files[colls[c].all_recipes[colls[c].json_recipes[k]].id] = 1

\* a run with --json and no pattern on the account with "zzTarts" has ended:
\* the listing of zzTarts has its two recipes A and D, its json_recipes is empty,
\* it submitted nothing, D (which only zzTarts lists) was never claimed and has no
\* file, and A was claimed once and exported through Bookmarks
ExcludedListedNotExported_Witness ==
    /\ mpc = "done" /\ faults = 0
    /\ site = SiteZ /\ config.json_export /\ config.pattern = NoPattern
    /\ Excluded = {3}
    /\ text_files[3] = <<<<A, Pho>>, <<D, Poke>>>>
    /\ colls[3].json_recipes = <<>> /\ cp[3].futures = <<>> /\ cp[3].pc = "done"
    /\ claim_calls[D] = 0 /\ json_files[D] = 0
    /\ claim_calls[A] = 1 /\ json_files[A] = 1
    /\ \E j \in 1..Len(cp[1].futures) : ItemRecipe(1, j).id = A
    /\ index[3] = <<3, custom, zzTarts>>
    /\ processed_collections = 3 /\ processed_recipes = 3

\* C24: with --json, the recipes of a discovered, non-excluded collection that are
\* selected for export are exactly those for which the collection part of the
\* pattern passes the collection title and the recipe part passes the recipe
\* title, a part that is not given passing everything.
FiltersAppliedConjunctively ==
    \A c \in Discovered \ Excluded :
        config.json_export =>
            JsonRefs(c) =
                {k \in 1..Len(colls[c].all_recipes) :
                    /\ \/ config.collection_pattern = NoPattern
                       \/ Search(config.collection_pattern, colls[c].title)
                    /\ \/ config.recipe_pattern = NoPattern
                       \/ Search(config.recipe_pattern, colls[c].all_recipes[k].title)}

\* C25: every row of the master index shows the collection's
\* official_recipe_count when it is known (not -1, 0 included) and its
\* actual_recipe_count otherwise, whatever the two counts are.
IndexShowsOfficialElseActual ==
    index # NoFile =>
        /\ Len(index) = Len(colls)
        /\ \A c \in 1..Len(colls) : \E k \in 1..Len(index) :
              /\ index[k][2] = colls[c].colltype /\ index[k][3] = colls[c].title
              /\ colls[c].official_recipe_count # -1 =>
                    index[k][1] = colls[c].official_recipe_count
              /\ colls[c].official_recipe_count = -1 =>
                    index[k][1] = colls[c].actual_recipe_count

\* the index is written: Asian has the official count 0 while its page showed two
\* recipes and its row shows 0; Bookmarks has no official count and its row shows
\* the 1 recipe found
IndexShowsOfficialElseActual_Witness ==
    /\ index # NoFile
    /\ colls[3].official_recipe_count = 0 /\ colls[3].actual_recipe_count = 2
    /\ index[3] = <<0, custom, Asian>>
    /\ colls[1].official_recipe_count = -1 /\ colls[1].actual_recipe_count = 1
    /\ index[1] = <<1, bookmark, Bookmarks>>

\* C26: the summary printed at the end of the run reports processed_collections
\* and processed_recipes, or the warning that nothing matched when both are 0,
\* and in either case the number of errors when errors were recorded.
SummaryReportsCountsAndErrors ==
    mpc = "done" =>
        /\ summary.warning <=> (processed_collections = 0 /\ processed_recipes = 0)
        /\ ~summary.warning =>
              /\ summary.collections = processed_collections
              /\ summary.recipes = processed_recipes
        /\ Len(errors) > 0 => summary.errors = Len(errors)

\* no CollectionProcessor and no RecipeProcessor is running or waiting to run
AllWorkCompleted ==
    /\ \A c \in 1..NColl :
          /\ cp[c].pc \in {"unsubmitted", "done"}
          /\ \A j \in 1..Len(cp[c].futures) : cp[c].futures[j].pc = "done"
    /\ \A w \in DOMAIN worker : worker[w] = 0

\* C27: the master index is written only after all collection and recipe work
\* has completed: in the step that writes it and whenever it exists, no
\* CollectionProcessor or RecipeProcessor is running or queued, and once it is
\* written no processor starts or changes anything (futures, recipe states,
\* counters, JSON files and listings stay as they are).
IndexWrittenAfterAllWork ==
    /\ [](index # NoFile => AllWorkCompleted)
    /\ [][(index' # NoFile) =>
             /\ AllWorkCompleted
             /\ UNCHANGED <<cp, worker, colls, recipe_states, processed_collections,
                            processed_recipes, started, json_files, text_files>>]_vars

\* the index is written after two collection threads processed the three
\* collections and their recipe threads exported the four recipes
IndexWrittenAfterAllWork_Witness ==
    /\ index # NoFile /\ Len(index) = NColl
    /\ config.max_collection_threads = 2
    /\ processed_collections = NColl /\ processed_recipes = 4
    /\ \A c \in 1..NColl : cp[c].pc = "done"
    /\ Len(cp[1].futures) + Len(cp[2].futures) + Len(cp[3].futures) = 4
    /\ AllWorkCompleted

\* C28: scrollToEnd leaves its loop once no new tile appears, at the latest
\* after max_retries rounds in a row without a new tile: it is never still in
\* the loop after more than max_retries such rounds.
ScrollExitsWithinRetryCeiling ==
    scroll.pc = "loop" => scroll.stale <= max_retries

\* C29: recipe_states holds FULL_DATA_LOADED for an id only once the detail page
\* of that id has been fetched and parsed (some Recipe object of the id has its
\* content), so the full_data count of get_memory_stats never counts a recipe
\* whose detail was not loaded.
TrackerLoadedMeansDetailLoaded ==
    LET loaded == {i \in Ids :
                      \E c \in 1..Len(colls) : \E k \in 1..Len(colls[c].all_recipes) :
                          /\ colls[c].all_recipes[k].id = i
                          /\ colls[c].all_recipes[k].memory_state # BASIC_INFO_ONLY}
    IN  /\ \A i \in Ids : recipe_states[i] = FULL_DATA_LOADED => i \in loaded
        /\ get_memory_stats(recipe_states).full_data <= Cardinality(loaded)

\* C30: continue_on_error selects what happens after a recipe failed: when it is
\* set the run goes on and, at its end, every claimed recipe that did not fail
\* is exported and counted; when it is not set no process_recipe is started
\* after the first failure of a recipe.
ContinueOnErrorSelectsPolicy ==
    /\ []((config.continue_on_error /\ mpc = "done") =>
             /\ processed_recipes =
                   Cardinality({i \in Ids : recipe_states[i] # None}) - Cardinality(failed)
             /\ \A i \in {k \in Ids : recipe_states[k] # None} \ failed :
                   json_files[i] = 1)
    /\ [][(~config.continue_on_error /\ failed # {}) => started' = started]_vars

\* the recipe the cleanup loop of collection c is at
CleanupRecipe(c) == colls[c].all_recipes[cp[c].processed_recipes[cp[c].i]]

\* C31: cleanup_recipe_memory of a collection runs only when every future that
\* collection submitted is resolved and consumed; it clears a recipe only when
\* can_clear_memory is true for it (tracker and object are exported), the same
\* step empties the object and calls mark_recipe_memory_cleared, and an id
\* becomes cleared in no other step; when the pass is over none of the recipes
\* the futures returned is left exported.
CleanupAfterBatch ==
    /\ [](\A c \in 1..NColl :
             /\ cp[c].pc \in {"cleanup", "clear"} =>
                   /\ \A j \in 1..Len(cp[c].futures) :
                         cp[c].futures[j].pc = "done" /\ cp[c].futures[j].collected
                   /\ cp[c].i \in 1..Len(cp[c].processed_recipes)
             /\ cp[c].pc = "clear" =>
                   /\ can_clear_memory(recipe_states, CleanupRecipe(c).id)
                   /\ CleanupRecipe(c).memory_state = JSON_EXPORTED
             /\ (cp[c].pc \in {"increment", "exit", "done"}
                    /\ cp[c].processed_recipes # <<>>) =>
                   \A k \in 1..Len(cp[c].processed_recipes) :
                       LET r == colls[c].all_recipes[cp[c].processed_recipes[k]]
                       IN  /\ recipe_states[r.id] # JSON_EXPORTED
                           /\ r.memory_state # JSON_EXPORTED
                           /\ json_files[r.id] = 1 <=> recipe_states[r.id] = MEMORY_CLEARED
                           /\ recipe_states[r.id] = MEMORY_CLEARED <=>
                                 (r.memory_state = MEMORY_CLEARED /\ ~r.heavy))
    /\ [][\A i \in Ids :
             (recipe_states'[i] = MEMORY_CLEARED /\ recipe_states[i] # MEMORY_CLEARED) =>
                \E c \in 1..NColl :
                    /\ cp[c].pc = "clear" /\ cp'[c].pc # "clear"
                    /\ CleanupRecipe(c).id = i
                    /\ can_clear_memory(recipe_states, i)
                    /\ \A k \in Ids \ {i} : recipe_states'[k] = recipe_states[k]]_vars

\* the cleanup pass of a collection is over: of the two recipes its futures
\* returned, the exported one was cleared and the one whose export failed was
\* left as it was
CleanupAfterBatch_Witness ==
    \E c \in 1..NColl :
        /\ cp[c].pc = "increment"
        /\ Len(cp[c].processed_recipes) = 2
        /\ \E k, m \in 1..2 :
              LET r == colls[c].all_recipes[cp[c].processed_recipes[k]]
                  q == colls[c].all_recipes[cp[c].processed_recipes[m]]
              IN  /\ recipe_states[r.id] = MEMORY_CLEARED /\ ~r.heavy
                  /\ recipe_states[q.id] = FULL_DATA_LOADED /\ q.heavy /\ q.id \in failed

\* the state with what the cleanup pass did undone: a cleared id or Recipe is
\* exported and has its content
Uncleared(st) == IF st = MEMORY_CLEARED THEN JSON_EXPORTED ELSE st
UnclearedStates == [i \in Ids |-> Uncleared(recipe_states[i])]
UnclearedRecipes ==
    [c \in 1..Len(colls) |->
        [k \in 1..Len(colls[c].all_recipes) |->
            LET r == colls[c].all_recipes[k]
            IN  [r EXCEPT !.memory_state = Uncleared(r.memory_state),
                          !.heavy = r.heavy \/ r.memory_state = MEMORY_CLEARED]]]

\* what a run writes and reports
Outputs == <<json_files, text_files, index, processed_collections, processed_recipes,
             errors, summary>>

\* C32: the cleanup pass is an optimisation only. A step of the pass changes
\* nothing but the cleared marks (tracker state and Recipe object of an exported
\* recipe) and the position of its own loop: the JSON files, listings, index,
\* counters, errors and summary are untouched, and so is everything else once
\* the cleared marks are undone. No step that writes or counts reads a cleared
\* mark: a recipe being exported or marked is never cleared. So a run with the
\* pass and a run without it (for all or some collections) end with the same
\* files and counts: every id that was exported, cleared or not, has its one
\* file and is counted.
CleanupIsPureOptimisation ==
    /\ [][(\E c \in 1..NColl : cp[c].pc \in {"cleanup", "clear"} /\ cp'[c] # cp[c]) =>
             /\ Outputs' = Outputs
             /\ UnclearedStates' = UnclearedStates
             /\ UnclearedRecipes' = UnclearedRecipes
             /\ UNCHANGED <<config, site, mainVars, worker, sessionVars, claimVars,
                            started, failed, faults>>]_vars
    /\ [](\A c \in 1..NColl : \A j \in 1..Len(cp[c].futures) :
             cp[c].futures[j].pc \in {"export", "mark_exported", "increment"} =>
                /\ ~is_memory_cleared(ItemRecipe(c, j))
                /\ recipe_states[ItemRecipe(c, j).id] # MEMORY_CLEARED)
    /\ [](mpc = "done" =>
             LET exported == {i \in Ids : Uncleared(recipe_states[i]) = JSON_EXPORTED}
             IN  /\ \A i \in Ids : json_files[i] = (IF i \in exported THEN 1 ELSE 0)
                 /\ processed_recipes = Cardinality(exported)
                 /\ summary = print_summary(get_stats)
                 /\ index = MasterIndex(colls)
                 /\ \A c \in 1..NColl :
                       text_files[c] # NoFile => text_files[c] = recipe_list_text(colls[c]))

\* two runs without a failure have ended with the same files, index and counts:
\* this one, in which Bookmarks left the pass out (A and B are still exported)
\* while the other collections ran it (C and D are cleared)
CleanupIsPureOptimisation_Witness ==
    /\ mpc = "done" /\ faults = 0
    /\ recipe_states[A] = JSON_EXPORTED /\ recipe_states[B] = JSON_EXPORTED
    /\ recipe_states[C] = MEMORY_CLEARED /\ recipe_states[D] = MEMORY_CLEARED
    /\ \A i \in Ids : json_files[i] = 1
    /\ processed_recipes = 4 /\ processed_collections = 3 /\ errors = <<>>
    /\ index = << <<2, bookmark, Bookmarks>>, <<2, created, CreatedRecipes>>,
                  <<3, custom, Asian>> >>

\* ids that some CollectionProcessor claimed
Claimed == {i \in Ids : claim_wins[i] >= 1}

\* C33: with every call to the browser returning and threads that keep running,
\* a run that passed the bootstrap terminates: both pools have drained, the
\* index is written, the summary is printed, and every claimed id is exported
\* (or cleared after it) or failed with an error recorded.
RunTerminates ==
    <>(/\ mpc = "done"
       /\ AllWorkCompleted
       /\ index # NoFile
       /\ summary # NoSummary
       /\ \A i \in Claimed :
             \/ recipe_states[i] \in {JSON_EXPORTED, MEMORY_CLEARED}
             \/ i \in failed /\ Len(errors) > 0)

\* C34: the master index has exactly one row for every collection that the
\* discovery found, whether the collection was processed, skipped by
\* should_process_collection or failed: as many rows as collections, and the
\* rows are the collections' (colltype, title), each once.
IndexRowPerDiscoveredCollection ==
    index # NoFile =>
        /\ Len(index) = Len(colls) /\ Len(colls) = NColl
        /\ \A c \in 1..Len(colls) :
              Cardinality({k \in 1..Len(index) :
                              /\ index[k][2] = colls[c].colltype
                              /\ index[k][3] = colls[c].title}) = 1

\* run with --pattern "A::o": Bookmarks and Created recipes were skipped, the
\* navigation to Asian failed, and the index has the three rows
IndexRowPerDiscoveredCollection_Witness ==
    /\ index # NoFile /\ Len(index) = 3
    /\ cp[1].pc = "unsubmitted" /\ cp[2].pc = "unsubmitted"
    /\ processed_collections = 0
    /\ \E k \in 1..Len(errors) : errors[k] = CollectionError(3)
    /\ index[3] = <<3, custom, Asian>>

\* ids that the tracker has as exported or cleared
ExportedOrCleared == {i \in Ids : recipe_states[i] \in {JSON_EXPORTED, MEMORY_CLEARED}}

\* C35: processed_recipes never exceeds the number of ids that the tracker has
\* as JSON_EXPORTED or MEMORY_CLEARED, and when the run has finished the two
\* numbers are equal.
CounterWithinExportedIds ==
    /\ processed_recipes <= Cardinality(ExportedOrCleared)
    /\ mpc = "done" => processed_recipes = Cardinality(ExportedOrCleared)

\* a recipe thread has marked its id as exported and not yet counted it, while
\* an id counted earlier is already cleared: the counter is behind by one
CounterWithinExportedIds_Witness ==
    /\ processed_recipes = 2
    /\ Cardinality(ExportedOrCleared) = 3
    /\ \E i \in Ids : recipe_states[i] = MEMORY_CLEARED
    /\ \E c \in 1..NColl : \E j \in 1..Len(cp[c].futures) :
          /\ cp[c].futures[j].pc = "increment"
          /\ recipe_states[ItemRecipe(c, j).id] = JSON_EXPORTED

\* the error messages recorded for the recipe of future j of collection c
ErrorsRecordedFor(c, j) ==
    {e \in 1..Len(errors) :
        \/ errors[e] = RecipeError(c, j)
        \/ cp[c].futures[j].raised /\ errors[e] = FutureError}

\* C36: when the run has finished, the tracker has no id as JSON_EXPORTED: every
\* claimed id whose export succeeded (its JSON file is written) is
\* MEMORY_CLEARED, and every claimed id whose processing failed is in the state
\* that mark_recipe_for_processing gave it, with at least one error recorded
\* for it.
NoExportedLeftAtEnd ==
    mpc = "done" =>
        /\ \A i \in Ids : recipe_states[i] # JSON_EXPORTED
        /\ \A c \in 1..NColl : \A j \in 1..Len(cp[c].futures) :
              LET id == ItemRecipe(c, j).id
              IN  /\ id \in Claimed
                  /\ id \notin failed =>
                        json_files[id] = 1 /\ recipe_states[id] = MEMORY_CLEARED
                  /\ id \in failed =>
                        /\ json_files[id] = 0
                        /\ recipe_states[id] =
                              mark_recipe_for_processing(EmptyStates, id).states[id]
                        /\ ErrorsRecordedFor(c, j) # {}

\* the run has finished: one claimed recipe failed and is as the claim left it,
\* the three others are exported and cleared
NoExportedLeftAtEnd_Witness ==
    /\ mpc = "done"
    /\ Cardinality(failed) = 1
    /\ Cardinality({i \in Ids : recipe_states[i] = MEMORY_CLEARED}) = 3
    /\ \E i \in failed : recipe_states[i] = FULL_DATA_LOADED
    /\ Len(errors) = 1

\* the collections that have submitted a RecipeProcessor for id i
Claimants(i) ==
    {c \in 1..NColl : \E j \in 1..Len(cp[c].futures) : ItemRecipe(c, j).id = i}

\* C37: a claim is never released. An id that the tracker knows stays known, so
\* mark_recipe_for_processing returns True for it once; one collection at most
\* has a RecipeProcessor for it and it is fetched once at most, also after the
\* claimant's attempt failed; an id whose attempt failed has no JSON file.
ClaimNeverReleased ==
    /\ [][\A i \in Ids : recipe_states[i] # None => recipe_states'[i] # None]_vars
    /\ [](\A i \in Ids :
             /\ claim_wins[i] <= 1
             /\ Cardinality(Claimants(i)) <= 1
             /\ started[i] <= 1
             /\ i \in failed => json_files[i] = 0)

\* the run has finished: Bookmarks claimed B and its attempt failed, Created
\* recipes asked for B too and was refused, and B has no JSON file
ClaimNeverReleased_Witness ==
    /\ mpc = "done"
    /\ failed = {B}
    /\ Claimants(B) = {1}
    /\ claim_calls[B] = 2 /\ claim_wins[B] = 1
    /\ started[B] = 1
    /\ json_files[B] = 0
    /\ cp[2].pc = "done" /\ ~cp[2].raised /\ Len(cp[2].futures) = 1

\* populateRecipeData, lines 579-585: the source label set from collection_type
recipe_source(collection_type) ==
    IF collection_type = created THEN "Cookidoo - Created Recipe" ELSE "Cookidoo"

\* the colltype that line 1129 passes on for id i: that of the collection whose
\* claim of i succeeded
ProcessedAs(i) == {colls[c].colltype : c \in Claimants(i)}

\* the first collection of the account, in the order of discovery, that lists i
FirstListed(i) ==
    CHOOSE k \in 1..NColl :
        /\ \E t \in 1..Len(site[k].tiles) : site[k].tiles[t].id = i
        /\ \A m \in 1..(k - 1) : \A t \in 1..Len(site[m].tiles) : site[m].tiles[t].id # i

\* C38: without failures the collection kind with which an id is processed, and
\* with it the source label of its record, depends on the input only. The run
\* in which the collections are taken one after the other in the order of
\* discovery is an interleaving of every configuration, so the kind would have
\* to be the one of the first collection that lists the id, in every state.
KindDeterminedByInput ==
    faults = 0 =>
        \A i \in Ids : \A kind \in ProcessedAs(i) :
            /\ kind = site[FirstListed(i)].colltype
            /\ recipe_source(kind) = recipe_source(site[FirstListed(i)].colltype)

\* C39: max_concurrent_browsers is max_collection_threads * (1 + max_recipe_threads)
\* in the configuration of every run, so that validate_configuration (line 374)
\* compares the real session bound.
MaxConcurrentBrowsersIsProduct ==
    config.max_concurrent_browsers =
        config.max_collection_threads * (1 + config.max_recipe_threads)

============================================================================
